---------------------------- MODULE Spec2Model ----------------------------
(***************************************************************************)
(* PassMgrPrototype: the sync server (server/src/main.rs), the sync client *)
(* session (passmgr-cli/src/main.rs) and the local encrypted user store    *)
(* (storage/src/user_db.rs over storage/src/db.rs and                      *)
(* crypto/src/cipher_chain.rs).                                            *)
(*                                                                         *)
(* Three specifications share the module:                                  *)
(*   Spec        the server: its auth database, its session map, the       *)
(*               per-user record trees, and one action per RPC handler;    *)
(*               a handler is an operator from the service's state and the *)
(*               request to the new state, the gRPC status and the         *)
(*               response message, and its action applies it;              *)
(*   SpecClient  the client's ServerSession and the requests it signs;     *)
(*   SpecDb      one UserDb over its Storage, with the wall clock that     *)
(*               generate_record_id reads.                                 *)
(* Each specification leaves the variables of the other two untouched.     *)
(*                                                                         *)
(* Integers: TLC's integers are 32-bit, so a u64 (record ids, versions,    *)
(* lengths, the client nonce, the clock) ranges over values below 2^31 and *)
(* is encoded to its 8 bytes with the upper four bytes zero.               *)
(***************************************************************************)
EXTENDS Integers, Sequences, FiniteSets, TLC

VARIABLES
    \* ---- server (PassmgrService and the disk under data_dir) ----
    auth_db,     \* sled::Db: key bytes -> value bytes
    sessions,    \* HashMap<String, (UserId, Instant)>: token -> [user_id, expiry]
    disk,        \* data_dir: path -> (tree name -> (key bytes -> value bytes))
    now,         \* Instant::now(), in seconds
    uuids,       \* Uuid::new_v4() values drawn so far: [challenges, tokens]
    \* ---- client (interactive_mode and its ServerSession) ----
    server,      \* ServerSession {client, user_id, key_pairs, nonce}
    cpc,         \* AppState, and the position inside sync_with_server
    wire,        \* the signed requests sent since the nonce was last set,
                 \* the last two of them
    user_db,     \* the open UserDb (Option: <<>> or <<handle>>)
    \* ---- local user store (the disk under UserDb) ----
    ldisk,       \* the client's database directory: path -> trees
    clock,       \* SystemTime::now() since UNIX_EPOCH, in seconds
    \* ---- library functions called on their own ----
    job          \* the call in progress: its inputs and what it returned

srvVars == <<auth_db, sessions, disk, now, uuids>>
cliVars == <<server, cpc, wire>>
dbVars  == <<user_db, ldisk, clock>>
fnVars  == <<job>>
vars    == <<auth_db, sessions, disk, now, uuids, server, cpc, wire, user_db, ldisk, clock, job>>

-----------------------------------------------------------------------------
(* Bytes, fixed-width integers, maps *)

Byte == 0..255

Pow256(k) == CASE k = 0 -> 1 [] k = 1 -> 256 [] k = 2 -> 65536 [] OTHER -> 16777216

\* Byte k (0 = least significant) of a u64 below 2^31.
ByteAt(n, k) == IF k > 3 THEN 0 ELSE (n \div Pow256(k)) % 256

\* u64::to_be_bytes
ToBeBytes(n) == [i \in 1..8 |-> ByteAt(n, 8 - i)]

\* u64::from_be_bytes, on the keys ToBeBytes produces
FromBeBytes(b) == b[5] * Pow256(3) + b[6] * Pow256(2) + b[7] * Pow256(1) + b[8]

\* bincode's fixed-width little-endian u64
ToLeBytes(n) == [i \in 1..8 |-> ByteAt(n, i - 1)]

FromLeBytes(b) == b[1] + b[2] * Pow256(1) + b[3] * Pow256(2) + b[4] * Pow256(3)

Slice(s, from, to) == [i \in 1..(to - from + 1) |-> s[from + i - 1]]

EmptyMap == [x \in {} |-> 0]

Put(f, k, v) == [x \in (DOMAIN f) \cup {k} |-> IF x = k THEN v ELSE f[x]]

Del(f, k) == [x \in (DOMAIN f) \ {k} |-> f[x]]

\* Byte strings compare as sled orders its keys: lexicographically.
RECURSIVE LexLess(_, _)
LexLess(a, b) ==
    IF a = <<>> THEN b # <<>>
    ELSE IF b = <<>> THEN FALSE
    ELSE IF Head(a) # Head(b) THEN Head(a) < Head(b)
    ELSE LexLess(Tail(a), Tail(b))

\* The keys of a tree in iteration order.
RECURSIVE KeysInOrder(_)
KeysInOrder(ks) ==
    IF ks = {} THEN <<>>
    ELSE LET m == CHOOSE k \in ks : \A o \in ks \ {k} : LexLess(k, o)
         IN <<m>> \o KeysInOrder(ks \ {m})

SeqToSet(s) == {s[i] : i \in DOMAIN s}

-----------------------------------------------------------------------------
(* storage/src/structures.rs and storage/src/db.rs *)

UserIdLen == 32

\* bincode::serialize(&CipherRecord)
SerializeCipherRecord(cr) ==
    cr.user_id \o ToLeBytes(cr.cipher_record_id) \o ToLeBytes(cr.ver)
        \o ToLeBytes(Len(cr.cipher_options)) \o cr.cipher_options
        \o ToLeBytes(Len(cr.data)) \o cr.data

\* bincode::deserialize::<CipherRecord>
DeserializeCipherRecord(b) ==
    LET o1   == UserIdLen
        nopt == FromLeBytes(Slice(b, o1 + 17, o1 + 24))
        o2   == o1 + 24 + nopt
        ndat == FromLeBytes(Slice(b, o2 + 1, o2 + 8))
    IN [user_id          |-> Slice(b, 1, o1),
        cipher_record_id |-> FromLeBytes(Slice(b, o1 + 1, o1 + 8)),
        ver              |-> FromLeBytes(Slice(b, o1 + 9, o1 + 16)),
        cipher_options   |-> Slice(b, o1 + 25, o2),
        data             |-> Slice(b, o2 + 9, o2 + 8 + ndat)]

\* Storage::open: the sled database at path and the tree named uid, created
\* when absent.  A Storage value is the pair [path, uid].
StorageOpen(d, path, uid) ==
    LET trees == IF path \in DOMAIN d THEN d[path] ELSE EmptyMap
        tree  == IF uid \in DOMAIN trees THEN trees[uid] ELSE EmptyMap
    IN Put(d, path, Put(trees, uid, tree))

Tree(d, st) == d[st.path][st.uid]

WithTree(d, st, t) == Put(d, st.path, Put(d[st.path], st.uid, t))

\* Storage::set writing the key in little-endian form
StorageSet_le(d, st, key, payload) ==
    WithTree(d, st, Put(Tree(d, st), ToLeBytes(key), SerializeCipherRecord(payload)))

\* Storage::set
StorageSet(d, st, key, payload) ==
    WithTree(d, st, Put(Tree(d, st), ToBeBytes(key), SerializeCipherRecord(payload)))

\* Storage::get
StorageGet(d, st, key) ==
    IF ToBeBytes(key) \in DOMAIN Tree(d, st)
    THEN [ok |-> TRUE, value |-> DeserializeCipherRecord(Tree(d, st)[ToBeBytes(key)])]
    ELSE [ok |-> FALSE, err |-> "StorageDataNotFound"]

\* Storage::remove looking the key up in little-endian form
StorageRemove_le(d, st, key) == WithTree(d, st, Del(Tree(d, st), ToLeBytes(key)))

\* Storage::remove
StorageRemove(d, st, key) == WithTree(d, st, Del(Tree(d, st), ToBeBytes(key)))

\* Storage::up: remove, then insert
StorageUp(d, st, key, payload) == StorageSet(StorageRemove(d, st, key), st, key, payload)

\* Storage::list_ids
StorageListIds(d, st) ==
    LET ks == KeysInOrder(DOMAIN Tree(d, st))
    IN [i \in DOMAIN ks |-> FromBeBytes(ks[i])]

\* Storage::list_ids_with_metadata
StorageListIdsWithMetadata(d, st) ==
    LET ids == StorageListIds(d, st)
    IN [i \in DOMAIN ids |->
           LET r == StorageGet(d, st, ids[i]).value
           IN <<r.cipher_record_id, r.ver, r.user_id>>]

-----------------------------------------------------------------------------
(* server/src/main.rs: inputs, randomness and signatures *)

MaxChallenges == 2
ClockStart == 1700000000
MaxTicks == 1
MaxTokens == 2
MaxNow    == 7200
MaxRecId  == 2
SessionTtl == 3600

\* Two well-formed user ids and one of the wrong length.
U1 == [i \in 1..UserIdLen |-> IF i = 1 THEN 1 ELSE 17]
U2 == [i \in 1..UserIdLen |-> IF i = 2 THEN 1 ELSE 17]
ShortId == <<1, 17>>
UserIds == {U1, U2}

\* Signing keys are named 1 and 2; a public key's bytes name its key.
Keys == {1, 2}
PubKeyBytes(k) == <<k, k, k, k>>

\* dilithium2 Keypair::sign: the signature binds the key and the message.
Sign(k, msg) == <<k>> \o msg

\* dilithium2::PublicKey::from_bytes(..).verify(msg, sig)
Verify(pkbytes, msg, sig) == \E k \in Keys : pkbytes = PubKeyBytes(k) /\ sig = Sign(k, msg)

HexChars == <<"0", "1", "2", "3", "4", "5", "6", "7", "8", "9", "a", "b", "c", "d", "e", "f">>

\* format!("{:02x}", b)
Hex02(b) == <<HexChars[(b \div 16) + 1], HexChars[(b % 16) + 1]>>

\* user_id.iter().fold(String::new(), ...): the hex name of a user's directory
RECURSIVE HexId(_)
HexId(bytes) == IF bytes = <<>> THEN <<>> ELSE Hex02(Head(bytes)) \o HexId(Tail(bytes))

\* Uuid::new_v4() never returns a value twice.  The n-th challenge drawn is
\* uuid n, the n-th token drawn is uuid TokenBase + n; uuid 0 and uuid
\* TokenBase are values never drawn.
TokenBase == 128
UuidBytes(n) == [i \in 1..16 |-> n]

\* Uuid::to_string, without the hyphens
UuidString(n) == HexId(UuidBytes(n))

\* [b"challenge_".as_ref(), &user_id[..]].concat()
ChallengeKey(uid) == <<99, 104, 97, 108, 108, 101, 110, 103, 101, 95>> \o uid

\* The records a client may put on the wire: two versions of record 1 and
\* one of record 2; the user_id field a record carries is the caller's choice.
DataA == <<170>>
DataB == <<187, 204>>
RecIds == 1..MaxRecId
WireRecords ==
    {[id |-> 1, ver |-> 1, user_id |-> U1, data |-> DataA],
     [id |-> 1, ver |-> 2, user_id |-> U2, data |-> DataB]}
    \cup {[id |-> i, ver |-> 1, user_id |-> U1, data |-> DataB] : i \in 2..MaxRecId}
Batches ==
    {<<>>} \cup {<<a, b>> : a \in {r \in WireRecords : r.ver = 2},
                            b \in {r \in WireRecords : r.ver = 1}}

-----------------------------------------------------------------------------
(* server/src/main.rs: PassmgrService *)

\* The service's state as one value: what a handler reads and what it leaves.
Srv == [auth_db |-> auth_db, sessions |-> sessions, disk |-> disk, now |-> now,
        uuids |-> uuids]

\* What a handler returns: the state it leaves, the gRPC status, the message.
Ret(s, status, out) == [s |-> s, status |-> status, out |-> out]

\* A faulty validate_session that never looks at the expiry: C4 must fail
\* with it.
validate_session_no_expiry(s, auth_token) ==
    IF auth_token \notin DOMAIN s.sessions
    THEN [ok |-> FALSE, status |-> "Unauthenticated", s |-> s]
    ELSE [ok |-> TRUE, user_id |-> s.sessions[auth_token].user_id, s |-> s]

\* PassmgrService::validate_session: the user of a live token; an expired
\* token is removed from the map.
validate_session(s, auth_token) ==
    IF auth_token \notin DOMAIN s.sessions
    THEN [ok |-> FALSE, status |-> "Unauthenticated", s |-> s]
    ELSE IF s.sessions[auth_token].expiry < s.now
    THEN [ok |-> FALSE, status |-> "Unauthenticated",
          s |-> [s EXCEPT !.sessions = Del(@, auth_token)]]
    ELSE [ok |-> TRUE, user_id |-> s.sessions[auth_token].user_id, s |-> s]

\* A faulty get_user_storage that opens one tree for every user: C3 must
\* fail with it.
UserStorage_shared(user_id) == [path |-> <<>>, uid |-> <<>>]

\* The Storage value get_user_storage returns: data_dir/hex(user_id), tree user_id
UserStorage(user_id) == [path |-> HexId(user_id), uid |-> user_id]

\* PassmgrService::get_user_storage: opening creates the database and the tree
get_user_storage(s, user_id) ==
    [s EXCEPT !.disk = StorageOpen(@, UserStorage(user_id).path, UserStorage(user_id).uid)]

\* std::fs::create_dir_all
CreateDirAll(d, path) == IF path \in DOMAIN d THEN d ELSE Put(d, path, EmptyMap)

\* A faulty conversion that stores every record as version 1: C6 must fail
\* with it.
ToCipherRecord_ver1(user_id, record) ==
    [user_id          |-> user_id,
     cipher_record_id |-> record.id,
     ver              |-> 1,
     cipher_options   |-> <<>>,
     data             |-> record.data]

\* A conversion that keeps the user_id the request's record carries
ToCipherRecord_as_sent(user_id, record) ==
    [user_id          |-> record.user_id,
     cipher_record_id |-> record.id,
     ver              |-> record.ver,
     cipher_options   |-> <<>>,
     data             |-> record.data]

\* The CipherRecord set_one and set_records build from a wire record.
ToCipherRecord(user_id, record) ==
    [user_id          |-> user_id,
     cipher_record_id |-> record.id,
     ver              |-> record.ver,
     cipher_options   |-> <<>>,
     data             |-> record.data]

\* The wire Record get_by_id and get_all build from a stored CipherRecord.
ToWireRecord(user_id, cr) ==
    [id |-> cr.cipher_record_id, ver |-> cr.ver, user_id |-> user_id, data |-> cr.data]

\* A faulty register without the existence check: C5 must fail with it.
register_overwrite(s, user_id, pub_key) ==
    IF Len(user_id) # UserIdLen THEN Ret(s, "InvalidArgument", <<>>)
    ELSE Ret([s EXCEPT !.auth_db = Put(@, user_id, pub_key),
                       !.disk = CreateDirAll(@, HexId(user_id))],
             "Ok", <<>>)

\* register
register(s, user_id, pub_key) ==
    IF Len(user_id) # UserIdLen THEN Ret(s, "InvalidArgument", <<>>)
    ELSE IF user_id \in DOMAIN s.auth_db THEN Ret(s, "AlreadyExists", <<>>)
    ELSE Ret([s EXCEPT !.auth_db = Put(@, user_id, pub_key),
                       !.disk = CreateDirAll(@, HexId(user_id))],
             "Ok", <<>>)

\* auth_challenge
auth_challenge(s, user_id) ==
    IF Len(user_id) # UserIdLen THEN Ret(s, "InvalidArgument", <<>>)
    ELSE LET challenge == UuidBytes(s.uuids.challenges + 1)
         IN Ret([s EXCEPT !.uuids.challenges = @ + 1,
                          !.auth_db = Put(@, ChallengeKey(user_id), challenge)],
                "Ok", challenge)

\* authenticate
authenticate(s, user_id, challenge_signature) ==
    IF Len(user_id) # UserIdLen THEN Ret(s, "InvalidArgument", <<>>)
    ELSE IF ChallengeKey(user_id) \notin DOMAIN s.auth_db THEN Ret(s, "Unauthenticated", <<>>)
    ELSE LET challenge == s.auth_db[ChallengeKey(user_id)]
             s1 == [s EXCEPT !.auth_db = Del(@, ChallengeKey(user_id))]
         IN IF user_id \notin DOMAIN s1.auth_db THEN Ret(s1, "NotFound", <<>>)
            ELSE IF ~Verify(s1.auth_db[user_id], challenge, challenge_signature)
            THEN Ret(s1, "Unauthenticated", <<>>)
            ELSE LET auth_token == UuidString(TokenBase + s1.uuids.tokens + 1)
                 IN Ret([s1 EXCEPT !.uuids.tokens = @ + 1,
                                   !.sessions = Put(@, auth_token,
                                       [user_id |-> user_id, expiry |-> s1.now + SessionTtl])],
                        "Ok", auth_token)

\* close_session
close_session(s, auth_token) ==
    Ret([s EXCEPT !.sessions = Del(@, auth_token)], "Ok", <<>>)

\* get_list
get_list(s, auth_token) ==
    LET a == validate_session(s, auth_token) IN
    IF ~a.ok THEN Ret(a.s, a.status, <<>>)
    ELSE LET s1 == get_user_storage(a.s, a.user_id)
             records == StorageListIdsWithMetadata(s1.disk, UserStorage(a.user_id))
         IN Ret(s1, "Ok",
                [i \in DOMAIN records |->
                    [id |-> records[i][1], ver |-> records[i][2], user_id |-> a.user_id]])

\* get_by_id
get_by_id(s, auth_token, cipher_record_id) ==
    LET a == validate_session(s, auth_token) IN
    IF ~a.ok THEN Ret(a.s, a.status, <<>>)
    ELSE LET s1 == get_user_storage(a.s, a.user_id)
             record == StorageGet(s1.disk, UserStorage(a.user_id), cipher_record_id)
         IN IF record.ok
            THEN Ret(s1, "Ok", ToWireRecord(a.user_id, record.value))
            ELSE Ret(s1, "NotFound", <<>>)

\* get_all
get_all(s, auth_token) ==
    LET a == validate_session(s, auth_token) IN
    IF ~a.ok THEN Ret(a.s, a.status, <<>>)
    ELSE LET s1 == get_user_storage(a.s, a.user_id)
             st == UserStorage(a.user_id)
             record_ids == StorageListIds(s1.disk, st)
         IN Ret(s1, "Ok",
                [i \in DOMAIN record_ids |->
                    ToWireRecord(a.user_id, StorageGet(s1.disk, st, record_ids[i]).value)])

\* set_one; record is the request's Option<Record>: <<r>> or <<>>
set_one(s, auth_token, record) ==
    LET a == validate_session(s, auth_token) IN
    IF ~a.ok THEN Ret(a.s, a.status, <<>>)
    ELSE LET s1 == get_user_storage(a.s, a.user_id) IN
         IF record = <<>> THEN Ret(s1, "InvalidArgument", <<>>)
         ELSE Ret([s1 EXCEPT !.disk = StorageSet(@, UserStorage(a.user_id), record[1].id,
                                                 ToCipherRecord(a.user_id, record[1]))],
                  "Ok", <<>>)

\* The loop of set_records: one Storage::set per record, in request order.
RECURSIVE SetEach(_, _, _, _)
SetEach(d, st, user_id, records) ==
    IF records = <<>> THEN d
    ELSE SetEach(StorageSet(d, st, Head(records).id, ToCipherRecord(user_id, Head(records))),
                 st, user_id, Tail(records))

\* set_records
set_records(s, auth_token, records) ==
    LET a == validate_session(s, auth_token) IN
    IF ~a.ok THEN Ret(a.s, a.status, <<>>)
    ELSE LET s1 == get_user_storage(a.s, a.user_id)
         IN Ret([s1 EXCEPT !.disk = SetEach(@, UserStorage(a.user_id), a.user_id, records)],
                "Ok", <<>>)

\* delete_by_id
delete_by_id(s, auth_token, record_id) ==
    LET a == validate_session(s, auth_token) IN
    IF ~a.ok THEN Ret(a.s, a.status, <<>>)
    ELSE LET s1 == get_user_storage(a.s, a.user_id)
         IN Ret([s1 EXCEPT !.disk = StorageRemove(@, UserStorage(a.user_id), record_id)],
                "Ok", <<>>)

\* The loop of delete_all: one Storage::remove per listed id.
RECURSIVE RemoveEach(_, _, _)
RemoveEach(d, st, ids) ==
    IF ids = <<>> THEN d
    ELSE RemoveEach(StorageRemove(d, st, Head(ids)), st, Tail(ids))

\* A faulty delete_all that removes the first listed id only: C7 must fail
\* with it.
delete_all_first(s, auth_token) ==
    LET a == validate_session(s, auth_token) IN
    IF ~a.ok THEN Ret(a.s, a.status, <<>>)
    ELSE LET s1 == get_user_storage(a.s, a.user_id)
             st == UserStorage(a.user_id)
             ids == StorageListIds(s1.disk, st)
         IN Ret([s1 EXCEPT !.disk = IF ids = <<>> THEN @ ELSE StorageRemove(@, st, Head(ids))],
                "Ok", <<>>)

\* delete_all
delete_all(s, auth_token) ==
    LET a == validate_session(s, auth_token) IN
    IF ~a.ok THEN Ret(a.s, a.status, <<>>)
    ELSE LET s1 == get_user_storage(a.s, a.user_id)
             st == UserStorage(a.user_id)
         IN Ret([s1 EXCEPT !.disk = RemoveEach(@, st, StorageListIds(s1.disk, st))],
                "Ok", <<>>)

-----------------------------------------------------------------------------
(* The server as a state machine: one action per RPC *)

\* The state a handler leaves becomes the service's state.
Apply(r) ==
    /\ auth_db' = r.s.auth_db
    /\ sessions' = r.s.sessions
    /\ disk' = r.s.disk
    /\ now' = r.s.now
    /\ uuids' = r.s.uuids
    /\ UNCHANGED <<cliVars, dbVars, fnVars>>

\* Tokens a caller may present: every token issued so far and one never issued.
TokensOf(s) == {UuidString(TokenBase + n) : n \in 0..s.uuids.tokens}
Tokens == TokensOf(Srv)

\* The signatures a caller may present for user_id: by either key, over the
\* challenge now stored for user_id or over a value that was never a challenge.
Signatures(user_id) ==
    {Sign(k, c) : k \in Keys,
                  c \in {UuidBytes(0)} \cup
                        (IF ChallengeKey(user_id) \in DOMAIN auth_db
                         THEN {auth_db[ChallengeKey(user_id)]} ELSE {})}

\* The user ids a caller may present.
CallerIds == UserIds \cup {ShortId}

\* PassmgrService::new over an empty auth database and data directory
InitSrv ==
    /\ auth_db = EmptyMap
    /\ sessions = EmptyMap
    /\ disk = EmptyMap
    /\ now = 0
    /\ uuids = [challenges |-> 0, tokens |-> 0]

\* interactive_mode before its loop: the start screen, no connection, no keys
InitCli ==
    /\ server = [client |-> FALSE, user_id |-> [i \in 1..UserIdLen |-> 0],
                 key_pairs |-> <<>>, nonce |-> 0]
    /\ cpc = [at |-> "StartScreen", todo |-> <<>>, ret |-> "StartScreen"]
    /\ wire = <<>>

\* No UserDb is open, the database directory is empty.
InitDb ==
    /\ user_db = <<>>
    /\ ldisk = EmptyMap
    /\ clock = ClockStart

\* No library function is being called on its own.
InitFn == job = [op |-> "idle"]

Init == InitSrv /\ InitCli /\ InitDb /\ InitFn

Register(user_id, pub_key) == Apply(register(Srv, user_id, pub_key))

AuthChallenge(user_id) ==
    /\ Len(user_id) = UserIdLen => uuids.challenges < MaxChallenges
    /\ Apply(auth_challenge(Srv, user_id))

Authenticate(user_id, sig) ==
    /\ uuids.tokens < MaxTokens
    /\ Apply(authenticate(Srv, user_id, sig))

CloseSession(auth_token) == Apply(close_session(Srv, auth_token))

GetList(auth_token) == Apply(get_list(Srv, auth_token))

GetById(auth_token, id) == Apply(get_by_id(Srv, auth_token, id))

GetAll(auth_token) == Apply(get_all(Srv, auth_token))

SetOne(auth_token, record) == Apply(set_one(Srv, auth_token, record))

SetRecords(auth_token, records) == Apply(set_records(Srv, auth_token, records))

DeleteById(auth_token, id) == Apply(delete_by_id(Srv, auth_token, id))

DeleteAll(auth_token) == Apply(delete_all(Srv, auth_token))

\* Time passes, a session's lifetime at a time.
Tick ==
    /\ now + SessionTtl <= MaxNow
    /\ now' = now + SessionTtl
    /\ UNCHANGED <<auth_db, sessions, disk, uuids, cliVars, dbVars, fnVars>>

Next ==
    \/ \E user_id \in CallerIds, k \in Keys : Register(user_id, PubKeyBytes(k))
    \/ \E user_id \in CallerIds : AuthChallenge(user_id)
    \/ \E user_id \in CallerIds : \E sig \in Signatures(user_id) : Authenticate(user_id, sig)
    \/ \E tok \in Tokens : CloseSession(tok)
    \/ \E tok \in Tokens : GetList(tok)
    \/ \E tok \in Tokens, id \in RecIds : GetById(tok, id)
    \/ \E tok \in Tokens : GetAll(tok)
    \/ \E tok \in Tokens, record \in {<<r>> : r \in WireRecords} \cup {<<>>} : SetOne(tok, record)
    \/ \E tok \in Tokens, records \in Batches : SetRecords(tok, records)
    \/ \E tok \in Tokens, id \in RecIds : DeleteById(tok, id)
    \/ \E tok \in Tokens : DeleteAll(tok)
    \/ Tick

Spec == Init /\ [][Next]_vars

-----------------------------------------------------------------------------
(* Properties of the server *)

\* The authenticated data RPCs with their arguments, and the dispatch of one
\* to its handler.
DataCalls ==
    {[rpc |-> "GetList"], [rpc |-> "GetAll"], [rpc |-> "DeleteAll"]}
    \cup {[rpc |-> "GetById", id |-> i] : i \in RecIds}
    \cup {[rpc |-> "DeleteById", id |-> i] : i \in RecIds}
    \cup {[rpc |-> "SetOne", record |-> <<r>>] : r \in WireRecords}
    \cup {[rpc |-> "SetOne", record |-> <<>>]}
    \cup {[rpc |-> "SetRecords", records |-> b] : b \in Batches}

Call(s, tok, c) ==
    CASE c.rpc = "GetList"    -> get_list(s, tok)
      [] c.rpc = "GetAll"     -> get_all(s, tok)
      [] c.rpc = "DeleteAll"  -> delete_all(s, tok)
      [] c.rpc = "GetById"    -> get_by_id(s, tok, c.id)
      [] c.rpc = "DeleteById" -> delete_by_id(s, tok, c.id)
      [] c.rpc = "SetOne"     -> set_one(s, tok, c.record)
      [] c.rpc = "SetRecords" -> set_records(s, tok, c.records)

\* The record tree of a user: the tree that user's RPCs work on (empty when
\* it was never opened).
UserTree(d, user_id) ==
    LET st == UserStorage(user_id)
    IN IF st.path \in DOMAIN d /\ st.uid \in DOMAIN d[st.path]
       THEN d[st.path][st.uid] ELSE EmptyMap

\* A token that names a session which has not expired.
Live(s, tok) == tok \in DOMAIN s.sessions /\ ~(s.sessions[tok].expiry < s.now)

\* The state with the tree of every user but user_id emptied.
WipeOthers(s, user_id) ==
    [s EXCEPT !.disk =
        [p \in DOMAIN s.disk |->
            [t \in DOMAIN s.disk[p] |->
                IF \E v \in UserIds \ {user_id} :
                       UserStorage(v).path = p /\ UserStorage(v).uid = t
                THEN EmptyMap ELSE s.disk[p][t]]]]

\* C1 (replay resistance): a data RPC request that the server has accepted
\* is rejected when the identical request is submitted again.
C1_ReplayRejected ==
    \A tok \in Tokens, c \in DataCalls :
        LET r == Call(Srv, tok, c)
        IN r.status = "Ok" => Call(r.s, tok, c).status # "Ok"

\* C3 (cross-tenant isolation): an RPC authenticated as user u leaves the tree
\* of every other user as it was, its status and response are what they would
\* be with every other user's tree empty, and GetById of an id that u's own
\* tree does not hold is NotFound.
C3_Isolation ==
    \A tok \in Tokens :
        Live(Srv, tok) =>
            LET u == sessions[tok].user_id IN
            \A c \in DataCalls :
                LET r == Call(Srv, tok, c)
                    w == Call(WipeOthers(Srv, u), tok, c)
                IN /\ \A v \in UserIds \ {u} : UserTree(r.s.disk, v) = UserTree(disk, v)
                   /\ w.status = r.status
                   /\ w.out = r.out
                   /\ (c.rpc = "GetById" /\ ToBeBytes(c.id) \notin DOMAIN UserTree(disk, u))
                          => r.status = "NotFound"

\* C3's case: both users hold live sessions, and record 1 is in U2's tree only.
C3_Witness ==
    /\ \E t1, t2 \in Tokens :
          /\ Live(Srv, t1) /\ sessions[t1].user_id = U1
          /\ Live(Srv, t2) /\ sessions[t2].user_id = U2
    /\ ToBeBytes(1) \in DOMAIN UserTree(disk, U2)
    /\ ToBeBytes(1) \notin DOMAIN UserTree(disk, U1)
    /\ UserTree(disk, U1) # EmptyMap

\* C4 (authentication gate): a data RPC whose token names no session, or an
\* expired one, returns Unauthenticated or NotFound and leaves the disk, every
\* user's records with it, as it was.
C4_AuthGate ==
    \A tok \in Tokens, c \in DataCalls :
        ~Live(Srv, tok) =>
            LET r == Call(Srv, tok, c)
            IN /\ r.status \in {"Unauthenticated", "NotFound"}
               /\ r.s.disk = disk

\* C4's case: a session has expired while its user's tree holds records.
C4_Witness ==
    \E tok \in DOMAIN sessions :
        /\ sessions[tok].expiry < now
        /\ UserTree(disk, sessions[tok].user_id) # EmptyMap

\* C5 (Register): a user_id that is not 32 bytes long is InvalidArgument and
\* stores nothing; a registered user_id is AlreadyExists and the auth
\* database keeps what it held; an unregistered one is stored with pub_key and
\* every other entry keeps its value.
C5_Register ==
    \A user_id \in CallerIds, k \in Keys :
        LET r == register(Srv, user_id, PubKeyBytes(k))
        IN /\ Len(user_id) # 32
                => r.status = "InvalidArgument" /\ r.s.auth_db = auth_db
           /\ (Len(user_id) = 32 /\ user_id \in DOMAIN auth_db)
                => r.status = "AlreadyExists" /\ r.s.auth_db = auth_db
           /\ (Len(user_id) = 32 /\ user_id \notin DOMAIN auth_db)
                => /\ r.status = "Ok"
                   /\ DOMAIN r.s.auth_db = DOMAIN auth_db \cup {user_id}
                   /\ r.s.auth_db[user_id] = PubKeyBytes(k)
                   /\ \A o \in DOMAIN auth_db : r.s.auth_db[o] = auth_db[o]

\* C5's case: U1 is registered under key 1 (a Register with key 2 must leave
\* it) while U2 is not, and a challenge is stored beside the entries.
C5_Witness ==
    /\ U1 \in DOMAIN auth_db /\ auth_db[U1] = PubKeyBytes(1)
    /\ U2 \notin DOMAIN auth_db
    /\ ChallengeKey(U2) \in DOMAIN auth_db

\* What GetById and GetAll must hand back for a wire record stored by user u.
Stored(u, rec) == [id |-> rec.id, ver |-> rec.ver, user_id |-> u, data |-> rec.data]

\* The data RPCs of the session tok that write record id.
Touches(tok, id) ==
    \/ \E rec \in WireRecords : rec.id = id /\ SetOne(tok, <<rec>>)
    \/ \E b \in Batches : (\E i \in DOMAIN b : b[i].id = id) /\ SetRecords(tok, b)
    \/ DeleteById(tok, id)
    \/ DeleteAll(tok)

\* C6, read-back: after an accepted SetOne(record) of user u, GetById(record.id)
\* returns the record's id, ver and data, and GetAll returns it exactly once.
C6_ReadBack ==
    \A tok \in Tokens, rec \in WireRecords :
        Live(Srv, tok) =>
            LET u == sessions[tok].user_id
                r == set_one(Srv, tok, <<rec>>)
                g == get_by_id(r.s, tok, rec.id)
                l == get_all(r.s, tok)
            IN /\ r.status = "Ok"
               /\ g.status = "Ok" /\ g.out = Stored(u, rec)
               /\ l.status = "Ok"
               /\ Cardinality({i \in DOMAIN l.out : l.out[i].id = rec.id}) = 1
               /\ \E i \in DOMAIN l.out : l.out[i] = Stored(u, rec)

\* C6, persistence: the bytes stored under an id in u's tree change only in
\* a step that is a SetOne, SetRecords, DeleteById or DeleteAll of a session
\* of u writing that id.
C6_Keeps ==
    disk' # disk =>
        \A u \in UserIds, id \in RecIds :
            LET k == ToBeBytes(id) IN
            (k \in DOMAIN UserTree(disk, u)
                /\ (k \notin DOMAIN UserTree(disk', u) \/ UserTree(disk', u)[k] # UserTree(disk, u)[k]))
            => \E tok \in Tokens : Live(Srv, tok) /\ sessions[tok].user_id = u /\ Touches(tok, id)

\* C6 (the server stores records verbatim): read-back in every state and
\* persistence in every step.
C6_Verbatim == []C6_ReadBack /\ [][C6_Keeps]_vars

\* C6's case: U1's tree holds version 2 of record 1 and record 2 beside it,
\* and U2's tree holds version 1 of record 1.
C6_Witness ==
    /\ \E tok \in Tokens : Live(Srv, tok) /\ sessions[tok].user_id = U1
    /\ get_by_id(Srv, CHOOSE tok \in Tokens : Live(Srv, tok) /\ sessions[tok].user_id = U1, 1).out
           = [id |-> 1, ver |-> 2, user_id |-> U1, data |-> DataB]
    /\ ToBeBytes(2) \in DOMAIN UserTree(disk, U1)
    /\ ToBeBytes(1) \in DOMAIN UserTree(disk, U2)
    /\ DeserializeCipherRecord(UserTree(disk, U2)[ToBeBytes(1)]).ver = 1

\* C7 (DeleteAll): DeleteAll of user u succeeds and leaves u's tree empty, so
\* GetList and GetAll of u return nothing; every other user's tree and the
\* auth database are as before.
C7_DeleteAll ==
    \A tok \in Tokens :
        Live(Srv, tok) =>
            LET u == sessions[tok].user_id
                r == delete_all(Srv, tok)
            IN /\ r.status = "Ok"
               /\ UserTree(r.s.disk, u) = EmptyMap
               /\ get_list(r.s, tok).status = "Ok" /\ get_list(r.s, tok).out = <<>>
               /\ get_all(r.s, tok).status = "Ok" /\ get_all(r.s, tok).out = <<>>
               /\ \A v \in UserIds \ {u} : UserTree(r.s.disk, v) = UserTree(disk, v)
               /\ r.s.auth_db = auth_db

\* C7's case: a live session of U1 whose tree holds two records, while U2's
\* tree holds a record too.
C7_Witness ==
    /\ \E tok \in Tokens : Live(Srv, tok) /\ sessions[tok].user_id = U1
    /\ Cardinality(DOMAIN UserTree(disk, U1)) = 2
    /\ UserTree(disk, U2) # EmptyMap

-----------------------------------------------------------------------------
(* crypto/src/structures.rs, crypto/src/master_keys.rs and                 *)
(* crypto/src/cipher_chain.rs                                              *)

\* CipherOption::code
AES256 == 1
ARIA == 2
BelT == 3
Camellia == 4
CAST6 == 5
Dilithium == 6
Kuznyechik == 7
Kyber1024 == 8
NTRUP1277 == 9
Serpent == 10
Speck == 11
Twofish == 12
XChaCha20 == 13

\* The block size of the block ciphers, and the XChaCha20 nonce length
BlockSize == 16
XNonceLen == 24

\* The seed phrases a user may enter, and the keys create_master_keys derives
\* from one: the derivation (Argon2id, outside this repository's code) is a
\* function of the phrase that gives every cipher its own key.
Mnemonics == {1, 2}

create_master_keys(m) ==
    [user_id        |-> IF m = 1 THEN U1 ELSE U2,
     aes256_key     |-> 16 * m + AES256,
     kuznyechik_key |-> 16 * m + Kuznyechik,
     xchacha20_key  |-> 16 * m + XChaCha20,
     dilithium_seed |-> m]

\* MasterKeys::get_key
get_key(keys, cipher) ==
    CASE cipher = AES256     -> keys.aes256_key
      [] cipher = ARIA       -> keys.aria_key
      [] cipher = BelT       -> keys.belt_key
      [] cipher = Camellia   -> keys.camellia_key
      [] cipher = CAST6      -> keys.cast6_key
      [] cipher = Kuznyechik -> keys.kuznyechik_key
      [] cipher = Kyber1024  -> keys.kyber1024_seed
      [] cipher = NTRUP1277  -> keys.ntrup1277_seed
      [] cipher = Serpent    -> keys.serpent_key
      [] cipher = Speck      -> keys.spec_key
      [] cipher = Twofish    -> keys.twofish_key
      [] cipher = XChaCha20  -> keys.xchacha20_key

\* Bitwise exclusive or of two bytes
RECURSIVE Xor(_, _)
Xor(a, b) ==
    IF a = 0 THEN b
    ELSE IF b = 0 THEN a
    ELSE ((a + b) % 2) + 2 * Xor(a \div 2, b \div 2)

XorBytes(a, b) == [i \in 1..Len(a) |-> Xor(a[i], b[i])]

\* The block primitive (aes, kuznyechik: library code): a keyed bijection on
\* blocks, here a rotation of the positions with a keyed shift of every byte.
EncryptBlock(key, block) ==
    [i \in 1..BlockSize |-> (block[(i % BlockSize) + 1] + key + i) % 256]

DecryptBlock(key, block) ==
    [j \in 1..BlockSize |->
        LET i == ((j + BlockSize - 2) % BlockSize) + 1
        IN (block[i] + 512 - key - i) % 256]

\* pcbc::Encryptor over the chunks of data: each block is encrypted after
\* xor with the state, and the state becomes plaintext xor ciphertext.
RECURSIVE PcbcEncrypt(_, _, _)
PcbcEncrypt(key, state, data) ==
    IF data = <<>> THEN <<>>
    ELSE LET p == Slice(data, 1, BlockSize)
             c == EncryptBlock(key, XorBytes(p, state))
         IN c \o PcbcEncrypt(key, XorBytes(p, c), Slice(data, BlockSize + 1, Len(data)))

\* pcbc::Decryptor
RECURSIVE PcbcDecrypt(_, _, _)
PcbcDecrypt(key, state, data) ==
    IF data = <<>> THEN <<>>
    ELSE LET c == Slice(data, 1, BlockSize)
             p == XorBytes(DecryptBlock(key, c), state)
         IN p \o PcbcDecrypt(key, XorBytes(p, c), Slice(data, BlockSize + 1, Len(data)))

\* The XChaCha20 keystream (library code): a function of key, nonce and
\* position.
KeyStream(key, iv, n) ==
    [i \in 1..n |-> (7 * key + 3 * iv[((i - 1) % XNonceLen) + 1] + i) % 256]

\* rand::thread_rng().fill_bytes: the bytes of the draw-th call of a
\* generator in state seed.
MaxSeed == 1
Seeds == 0..MaxSeed
FillBytes(seed, draw, n) == [i \in 1..n |-> (97 * seed + 41 * draw + 5 * i) % 256]

\* CipherChain::process padding only up to the next block boundary
process_no_full_block(data, key, iv) ==
    LET padding == (BlockSize - (Len(data) % BlockSize)) % BlockSize
        padded  == data \o [i \in 1..padding |-> padding]
    IN iv \o PcbcEncrypt(key, iv, padded)

\* CipherChain::process: IV, PKCS#7 padding, PCBC
process(data, key, iv) ==
    LET padding == BlockSize - (Len(data) % BlockSize)
        padded  == data \o [i \in 1..padding |-> padding]
    IN iv \o PcbcEncrypt(key, iv, padded)

\* A panic
Panic == [ok |-> FALSE, panic |-> TRUE]

\* CipherChain::reverse_process removing only a padding below the block size
reverse_process_lt(data, key) ==
    IF Len(data) < BlockSize \/ (Len(data) - BlockSize) % BlockSize # 0 THEN Panic
    ELSE LET iv        == Slice(data, 1, BlockSize)
             whole     == iv \o PcbcDecrypt(key, iv, Slice(data, BlockSize + 1, Len(data)))
             padding   == whole[Len(whole)]
             truncated == IF padding < BlockSize
                          THEN Slice(whole, 1, Len(whole) - padding) ELSE whole
         IN IF Len(truncated) < BlockSize THEN Panic
            ELSE [ok |-> TRUE, data |-> Slice(truncated, BlockSize + 1, Len(truncated))]

\* CipherChain::reverse_process
reverse_process(data, key) ==
    IF Len(data) < BlockSize \/ (Len(data) - BlockSize) % BlockSize # 0 THEN Panic
    ELSE LET iv        == Slice(data, 1, BlockSize)
             whole     == iv \o PcbcDecrypt(key, iv, Slice(data, BlockSize + 1, Len(data)))
             padding   == whole[Len(whole)]
             truncated == IF padding <= BlockSize
                          THEN Slice(whole, 1, Len(whole) - padding) ELSE whole
         IN IF Len(truncated) < BlockSize THEN Panic
            ELSE [ok |-> TRUE, data |-> Slice(truncated, BlockSize + 1, Len(truncated))]

\* The XChaCha20 arm of encrypt with the 12-byte nonce of ChaCha20
xchacha20_encrypt_nonce12(data, key, iv) ==
    Slice(iv, 1, 12) \o XorBytes(data, KeyStream(key, iv, Len(data)))

\* The XChaCha20 arm of encrypt
xchacha20_encrypt(data, key, iv) == iv \o XorBytes(data, KeyStream(key, iv, Len(data)))

\* The XChaCha20 arm of decrypt
xchacha20_decrypt(data, key) ==
    IF Len(data) < XNonceLen THEN Panic
    ELSE LET iv   == Slice(data, 1, XNonceLen)
             rest == Slice(data, XNonceLen + 1, Len(data))
         IN [ok |-> TRUE, data |-> XorBytes(rest, KeyStream(key, iv, Len(rest)))]

\* CipherChain::encrypt from layer j on; the chain holds supported ciphers.
RECURSIVE EncryptFrom(_, _, _, _)
EncryptFrom(ciphers, data, seed, j) ==
    IF j > Len(ciphers.cipher_chain) THEN data
    ELSE LET cipher == ciphers.cipher_chain[j]
             key    == get_key(ciphers.keys, cipher)
         IN EncryptFrom(ciphers,
                IF cipher = XChaCha20
                THEN xchacha20_encrypt(data, key, FillBytes(seed, j, XNonceLen))
                ELSE process(data, key, FillBytes(seed, j, BlockSize)),
                seed, j + 1)

\* CipherChain::encrypt
encrypt(ciphers, data, seed) == EncryptFrom(ciphers, data, seed, 1)

\* CipherChain::decrypt from layer j down
RECURSIVE DecryptFrom(_, _, _)
DecryptFrom(ciphers, data, j) ==
    IF j = 0 THEN [ok |-> TRUE, data |-> data]
    ELSE LET cipher == ciphers.cipher_chain[j]
             key    == get_key(ciphers.keys, cipher)
             r      == IF cipher = XChaCha20 THEN xchacha20_decrypt(data, key)
                       ELSE reverse_process(data, key)
         IN IF ~r.ok THEN r ELSE DecryptFrom(ciphers, r.data, j - 1)

\* A faulty decrypt that undoes the layers in the order they were applied:
\* C8 must fail with it.
RECURSIVE DecryptForward(_, _, _)
DecryptForward(ciphers, data, j) ==
    IF j > Len(ciphers.cipher_chain) THEN [ok |-> TRUE, data |-> data]
    ELSE LET cipher == ciphers.cipher_chain[j]
             key    == get_key(ciphers.keys, cipher)
             r      == IF cipher = XChaCha20 THEN xchacha20_decrypt(data, key)
                       ELSE reverse_process(data, key)
         IN IF ~r.ok THEN r ELSE DecryptForward(ciphers, r.data, j + 1)

decrypt_forward(ciphers, data) == DecryptForward(ciphers, data, 1)

\* CipherChain::decrypt
decrypt(ciphers, data) == DecryptFrom(ciphers, data, Len(ciphers.cipher_chain))

-----------------------------------------------------------------------------
(* storage/src/structures.rs: Record and its bincode form *)

\* A String or a Vec<u8>: its length as a u64, then its bytes
SerializeBytes(b) == ToLeBytes(Len(b)) \o b

\* An Atributes value (Hide 0, Copy 1, Reload 2): its variant index as a u32
SerializeAtribute(a) == [i \in 1..4 |-> ByteAt(a, i - 1)]

RECURSIVE SerializeTypes(_)
SerializeTypes(types) ==
    IF types = <<>> THEN <<>>
    ELSE SerializeAtribute(Head(types)) \o SerializeTypes(Tail(types))

SerializeItem(item) ==
    SerializeBytes(item.title) \o SerializeBytes(item.value)
        \o ToLeBytes(Len(item.types)) \o SerializeTypes(item.types)

RECURSIVE SerializeItems(_)
SerializeItems(items) ==
    IF items = <<>> THEN <<>>
    ELSE SerializeItem(Head(items)) \o SerializeItems(Tail(items))

\* bincode::serialize(&Record)
SerializeRecord(record) ==
    SerializeBytes(record.icon) \o ToLeBytes(record.created) \o ToLeBytes(record.updated)
        \o ToLeBytes(Len(record.fields)) \o SerializeItems(record.fields)

\* A failed read of the input
Fail == [ok |-> FALSE, err |-> "SerializationError"]

\* Readers of the input b from position p: the value and the next position.
ReadU64(b, p) ==
    IF p + 7 > Len(b) THEN Fail
    ELSE [ok |-> TRUE, val |-> FromLeBytes(Slice(b, p, p + 7)), next |-> p + 8]

ReadBytes(b, p) ==
    LET n == ReadU64(b, p)
    IN IF ~n.ok THEN Fail
       ELSE IF n.next + n.val - 1 > Len(b) THEN Fail
       ELSE [ok |-> TRUE, val |-> Slice(b, n.next, n.next + n.val - 1), next |-> n.next + n.val]

ReadAtribute(b, p) ==
    IF p + 3 > Len(b) THEN Fail
    ELSE IF b[p] > 2 \/ b[p + 1] # 0 \/ b[p + 2] # 0 \/ b[p + 3] # 0 THEN Fail
    ELSE [ok |-> TRUE, val |-> b[p], next |-> p + 4]

RECURSIVE ReadTypes(_, _, _)
ReadTypes(b, p, n) ==
    IF n = 0 THEN [ok |-> TRUE, val |-> <<>>, next |-> p]
    ELSE LET a == ReadAtribute(b, p)
         IN IF ~a.ok THEN Fail
            ELSE LET rest == ReadTypes(b, a.next, n - 1)
                 IN IF ~rest.ok THEN Fail
                    ELSE [ok |-> TRUE, val |-> <<a.val>> \o rest.val, next |-> rest.next]

ReadItem(b, p) ==
    LET title == ReadBytes(b, p) IN
    IF ~title.ok THEN Fail ELSE
    LET value == ReadBytes(b, title.next) IN
    IF ~value.ok THEN Fail ELSE
    LET n == ReadU64(b, value.next) IN
    IF ~n.ok THEN Fail ELSE
    LET types == ReadTypes(b, n.next, n.val) IN
    IF ~types.ok THEN Fail
    ELSE [ok |-> TRUE,
          val |-> [title |-> title.val, value |-> value.val, types |-> types.val],
          next |-> types.next]

RECURSIVE ReadItems(_, _, _)
ReadItems(b, p, n) ==
    IF n = 0 THEN [ok |-> TRUE, val |-> <<>>, next |-> p]
    ELSE LET item == ReadItem(b, p)
         IN IF ~item.ok THEN Fail
            ELSE LET rest == ReadItems(b, item.next, n - 1)
                 IN IF ~rest.ok THEN Fail
                    ELSE [ok |-> TRUE, val |-> <<item.val>> \o rest.val, next |-> rest.next]

\* bincode::deserialize::<Record>; bytes after the record are ignored
DeserializeRecord(b) ==
    LET icon == ReadBytes(b, 1) IN
    IF ~icon.ok THEN Fail ELSE
    LET created == ReadU64(b, icon.next) IN
    IF ~created.ok THEN Fail ELSE
    LET updated == ReadU64(b, created.next) IN
    IF ~updated.ok THEN Fail ELSE
    LET n == ReadU64(b, updated.next) IN
    IF ~n.ok THEN Fail ELSE
    LET fields == ReadItems(b, n.next, n.val) IN
    IF ~fields.ok THEN Fail
    ELSE [ok |-> TRUE,
          value |-> [icon |-> icon.val, created |-> created.val,
                     updated |-> updated.val, fields |-> fields.val]]

-----------------------------------------------------------------------------
(* storage/src/user_db.rs *)

\* The path of the client's database directory
DbPath == <<"db">>

\* The chain interactive_mode and the tests build
CipherChainOfCli == <<AES256, XChaCha20, Kuznyechik>>

\* UserDb::new: the handle, and the disk with the tree opened
UserDbNew(d, path, user_id, master_keys, cipher_chain) ==
    [d  |-> StorageOpen(d, path, user_id),
     db |-> [storage |-> [path |-> path, uid |-> user_id],
             ciphers |-> [cipher_chain |-> cipher_chain, keys |-> master_keys],
             user_id |-> user_id]]

\* UserDb::generate_record_id at clock time t: the seconds since the epoch
generate_record_id(t) == t

\* UserDb::get_cipher_options
get_cipher_options == <<AES256, XChaCha20>>

\* UserDb::create at clock time t with the generator in state seed
create(d, db, record, t, seed) ==
    LET record_id      == generate_record_id(t)
        data           == SerializeRecord(record)
        encrypted_data == encrypt(db.ciphers, data, seed)
        cipher_record  == [user_id          |-> db.user_id,
                           cipher_record_id |-> record_id,
                           ver              |-> 1,
                           cipher_options   |-> get_cipher_options,
                           data             |-> encrypted_data]
    IN [d |-> StorageSet(d, db.storage, record_id, cipher_record),
        ok |-> TRUE, value |-> record_id]

\* UserDb::read without the comparison of the stored user_id
read_unchecked(d, db, record_id) ==
    LET g == StorageGet(d, db.storage, record_id) IN
    IF ~g.ok THEN [ok |-> FALSE, err |-> g.err, panic |-> FALSE]
    ELSE LET decrypted_data == decrypt(db.ciphers, g.value.data) IN
         IF ~decrypted_data.ok THEN [ok |-> FALSE, err |-> "panic", panic |-> TRUE]
         ELSE LET record == DeserializeRecord(decrypted_data.data)
              IN IF ~record.ok THEN [ok |-> FALSE, err |-> record.err, panic |-> FALSE]
                 ELSE [ok |-> TRUE, value |-> record.value]

\* UserDb::read
read(d, db, record_id) ==
    LET g == StorageGet(d, db.storage, record_id) IN
    IF ~g.ok THEN [ok |-> FALSE, err |-> g.err, panic |-> FALSE]
    ELSE IF g.value.user_id # db.user_id
    THEN [ok |-> FALSE, err |-> "DecryptionError", panic |-> FALSE]
    ELSE LET decrypted_data == decrypt(db.ciphers, g.value.data) IN
         IF ~decrypted_data.ok THEN [ok |-> FALSE, err |-> "panic", panic |-> TRUE]
         ELSE LET record == DeserializeRecord(decrypted_data.data)
              IN IF ~record.ok THEN [ok |-> FALSE, err |-> record.err, panic |-> FALSE]
                 ELSE [ok |-> TRUE, value |-> record.value]

\* UserDb::update
update(d, db, record_id, record, seed) ==
    LET current == StorageGet(d, db.storage, record_id) IN
    IF ~current.ok THEN [d |-> d, ok |-> FALSE, err |-> current.err]
    ELSE LET data           == SerializeRecord(record)
             encrypted_data == encrypt(db.ciphers, data, seed)
             cipher_record  == [user_id          |-> db.user_id,
                                cipher_record_id |-> record_id,
                                ver              |-> current.value.ver + 1,
                                cipher_options   |-> get_cipher_options,
                                data             |-> encrypted_data]
         IN [d |-> StorageUp(d, db.storage, record_id, cipher_record), ok |-> TRUE]

\* UserDb::delete
delete(d, db, record_id) == [d |-> StorageRemove(d, db.storage, record_id), ok |-> TRUE]

\* The records of the tree that pass the ownership filter of list_records
OwnRecords(d, db) ==
    LET ids == StorageListIds(d, db.storage)
    IN SelectSeq([i \in DOMAIN ids |-> StorageGet(d, db.storage, ids[i]).value],
                 LAMBDA r : r.user_id = db.user_id)

\* UserDb::list_records
list_records(d, db) ==
    LET own == OwnRecords(d, db) IN [i \in DOMAIN own |-> own[i].cipher_record_id]

\* UserDb::list_records_with_metadata
list_records_with_metadata(d, db) ==
    LET own == OwnRecords(d, db)
    IN [i \in DOMAIN own |-> <<own[i].cipher_record_id, own[i].ver, own[i].user_id>>]

\* The stored CipherRecord of an id (the id is in the tree)
StoredRecord(d, db, record_id) == StorageGet(d, db.storage, record_id).value

Has(d, db, record_id) == StorageGet(d, db.storage, record_id).ok

-----------------------------------------------------------------------------
(* One UserDb as a state machine *)

MaxVer == 2

\* The records a caller stores: one without fields, whose bincode form fills
\* whole blocks, and two with a field, differing in the field's value.
RecA == [icon |-> <<>>, created |-> 1, updated |-> 2, fields |-> <<>>]
RecB == [icon |-> <<105>>, created |-> 1, updated |-> 2,
         fields |-> <<[title |-> <<76>>, value |-> <<112>>, types |-> <<0>>]>>]
Records == {RecA, RecB}

\* The ids a caller may name: the ids create can have produced.
DbIds == ClockStart..(ClockStart + MaxTicks)

\* The CipherRecords a caller writes through the public storage field, as
\* sync_with_server does with a record of the server: one of this user and one
\* of another user, neither holding a ciphertext of the chain.
Pulled(user_id, record_id) ==
    [user_id |-> user_id, cipher_record_id |-> record_id, ver |-> 1,
     cipher_options |-> <<>>, data |-> DataA]

Owners == {create_master_keys(m).user_id : m \in Mnemonics}

\* UserDb::new for the user of seed phrase 1
DbOpen ==
    /\ user_db = <<>>
    /\ LET mk == create_master_keys(1)
           r  == UserDbNew(ldisk, DbPath, mk.user_id, mk, CipherChainOfCli)
       IN /\ user_db' = <<r.db>>
          /\ ldisk' = r.d
    /\ UNCHANGED <<clock, srvVars, cliVars, fnVars>>

\* The handle is dropped.
DbClose ==
    /\ user_db # <<>>
    /\ user_db' = <<>>
    /\ UNCHANGED <<ldisk, clock, srvVars, cliVars, fnVars>>

DbCreate(record, seed) ==
    /\ user_db # <<>>
    /\ ldisk' = create(ldisk, user_db[1], record, clock, seed).d
    /\ UNCHANGED <<user_db, clock, srvVars, cliVars, fnVars>>

DbRead(record_id) ==
    /\ user_db # <<>>
    /\ read(ldisk, user_db[1], record_id).ok \in BOOLEAN
    /\ UNCHANGED <<dbVars, srvVars, cliVars, fnVars>>

DbUpdate(record_id, record, seed) ==
    /\ user_db # <<>>
    /\ LET g == StorageGet(ldisk, user_db[1].storage, record_id)
       IN g.ok => g.value.ver < MaxVer
    /\ ldisk' = update(ldisk, user_db[1], record_id, record, seed).d
    /\ UNCHANGED <<user_db, clock, srvVars, cliVars, fnVars>>

DbDelete(record_id) ==
    /\ user_db # <<>>
    /\ ldisk' = delete(ldisk, user_db[1], record_id).d
    /\ UNCHANGED <<user_db, clock, srvVars, cliVars, fnVars>>

\* user_db.storage.set of a record the store does not hold
DbStorageSet(user_id, record_id) ==
    /\ user_db # <<>>
    /\ ~Has(ldisk, user_db[1], record_id)
    /\ ldisk' = StorageSet(ldisk, user_db[1].storage, record_id, Pulled(user_id, record_id))
    /\ UNCHANGED <<user_db, clock, srvVars, cliVars, fnVars>>

DbListRecords ==
    /\ user_db # <<>>
    /\ Len(list_records(ldisk, user_db[1])) = Len(list_records_with_metadata(ldisk, user_db[1]))
    /\ UNCHANGED <<dbVars, srvVars, cliVars, fnVars>>

\* A second passes.
DbTick ==
    /\ clock < ClockStart + MaxTicks
    /\ clock' = clock + 1
    /\ UNCHANGED <<user_db, ldisk, srvVars, cliVars, fnVars>>

NextDb ==
    \/ DbOpen
    \/ DbClose
    \/ \E record \in Records, seed \in Seeds : DbCreate(record, seed)
    \/ \E record_id \in DbIds : DbRead(record_id)
    \/ \E record_id \in DbIds, record \in Records, seed \in Seeds : DbUpdate(record_id, record, seed)
    \/ \E record_id \in DbIds : DbDelete(record_id)
    \/ \E user_id \in Owners, record_id \in DbIds : DbStorageSet(user_id, record_id)
    \/ DbListRecords
    \/ DbTick

SpecDb == Init /\ [][NextDb]_vars

-----------------------------------------------------------------------------
(* Properties of UserDb *)

\* C8 (UserDb round trip): for every Record r, create(r) succeeds and read of
\* the id it returns is r; update(id, r2) of an id in the store succeeds and
\* read(id) is then r2.
C8_RoundTrip ==
    user_db # <<>> =>
        LET db == user_db[1] IN
        /\ \A r \in Records, seed \in Seeds :
              LET c  == create(ldisk, db, r, clock, seed)
                  rd == read(c.d, db, c.value)
              IN c.ok /\ rd.ok /\ rd.value = r
        /\ \A record_id \in DbIds, r2 \in Records, seed \in Seeds :
              Has(ldisk, db, record_id) =>
                  LET u  == update(ldisk, db, record_id, r2, seed)
                      rd == read(u.d, db, record_id)
                  IN u.ok /\ rd.ok /\ rd.value = r2

\* C8's case: the store holds a record that was created and then updated to
\* RecB, and read returns RecB; a second record is RecA as created.
C8_Witness ==
    /\ user_db # <<>>
    /\ Has(ldisk, user_db[1], ClockStart)
    /\ StoredRecord(ldisk, user_db[1], ClockStart).ver = 2
    /\ read(ldisk, user_db[1], ClockStart).ok
    /\ read(ldisk, user_db[1], ClockStart).value = RecB
    /\ Has(ldisk, user_db[1], ClockStart + 1)
    /\ read(ldisk, user_db[1], ClockStart + 1).ok
    /\ read(ldisk, user_db[1], ClockStart + 1).value = RecA

\* C9 (version monotonicity): a record that a step leaves in the store keeps
\* or raises its stored ver; the step never lowers it.
C9_VerNeverDecreases ==
    [][\A record_id \in DbIds :
           (/\ user_db # <<>> /\ user_db' # <<>>
            /\ Has(ldisk, user_db[1], record_id)
            /\ Has(ldisk', user_db[1], record_id))
           => StoredRecord(ldisk', user_db[1], record_id).ver
                  >= StoredRecord(ldisk, user_db[1], record_id).ver]_vars

\* C10 (record ids are unique): a create returns an id that no record of the
\* store has, so it adds one id to list_records and overwrites nothing.
C10_FreshId ==
    user_db # <<>> =>
        LET db == user_db[1] IN
        \A r \in Records, seed \in Seeds :
            LET c == create(ldisk, db, r, clock, seed)
            IN c.ok =>
                /\ c.value \notin SeqToSet(list_records(ldisk, db))
                /\ Len(list_records(c.d, db)) = Len(list_records(ldisk, db)) + 1

\* The tree of the open UserDb without the key of record_id
Without(d, db, record_id) == Del(Tree(d, db.storage), ToBeBytes(record_id))

\* delete(id) succeeds whether or not id is stored; afterwards get and read of
\* id fail with StorageDataNotFound, and every other key holds what it held.
C11_DeleteOne ==
    user_db # <<>> =>
        LET db == user_db[1] IN
        \A record_id \in DbIds :
            LET r == delete(ldisk, db, record_id)
                g == StorageGet(r.d, db.storage, record_id)
                rd == read(r.d, db, record_id)
            IN /\ r.ok
               /\ ~g.ok /\ g.err = "StorageDataNotFound"
               /\ ~rd.ok /\ rd.err = "StorageDataNotFound"
               /\ Tree(r.d, db.storage) = Without(ldisk, db, record_id)
               /\ \A other \in DbIds \ {record_id} :
                      StorageGet(r.d, db.storage, other) = StorageGet(ldisk, db.storage, other)
               /\ ~Has(ldisk, db, record_id) => r.d = ldisk

\* An id that is not stored stays so in every step but a create or a set that
\* stores that id.
C11_StaysDeleted ==
    \A record_id \in DbIds :
        (/\ user_db # <<>> /\ user_db' # <<>>
         /\ ~Has(ldisk, user_db[1], record_id)
         /\ Has(ldisk', user_db[1], record_id))
        => \/ \E r \in Records, seed \in Seeds :
                  /\ generate_record_id(clock) = record_id
                  /\ ldisk' = create(ldisk, user_db[1], r, clock, seed).d
           \/ \E user_id \in Owners :
                  ldisk' = StorageSet(ldisk, user_db[1].storage, record_id,
                                      Pulled(user_id, record_id))

\* C11 (delete): after delete(id) succeeds, get and read of id fail with
\* StorageDataNotFound until a later set or create stores that id again;
\* delete removes only that key and leaves every other record as it was;
\* delete of an id that is not stored succeeds and changes nothing.
C11_Delete == []C11_DeleteOne /\ [][C11_StaysDeleted]_vars

\* C11's case: the store holds two records, so that a delete of one has
\* another to leave alone, and both can be read.
C11_Witness ==
    /\ user_db # <<>>
    /\ \A record_id \in DbIds : read(ldisk, user_db[1], record_id).ok
    /\ StoredRecord(ldisk, user_db[1], ClockStart).ver = 1
    /\ Cardinality(DOMAIN Tree(ldisk, user_db[1].storage)) = 2

\* C12 (ownership check on read): read(id) returns DecryptionError, without
\* decrypting, whenever the stored record's user_id differs from the session's
\* user_id, and the not-found error when nothing is stored under id; it never
\* returns a Record for a CipherRecord of another user.
C12_OwnerOnly ==
    user_db # <<>> =>
        LET db == user_db[1] IN
        \A record_id \in DbIds :
            LET g  == StorageGet(ldisk, db.storage, record_id)
                rd == read(ldisk, db, record_id)
            IN /\ ~g.ok => ~rd.ok /\ rd.err = "StorageDataNotFound"
               /\ (g.ok /\ g.value.user_id # db.user_id)
                      => ~rd.ok /\ rd.err = "DecryptionError" /\ ~rd.panic
               /\ rd.ok => g.value.user_id = db.user_id

\* C12's case: the tree of the open UserDb holds a record of another user,
\* whose data no decryption of the chain accepts, beside a record of its own
\* that read returns.
C12_Witness ==
    /\ user_db # <<>>
    /\ Has(ldisk, user_db[1], ClockStart)
    /\ StoredRecord(ldisk, user_db[1], ClockStart).user_id # user_db[1].user_id
    /\ ~decrypt(user_db[1].ciphers, StoredRecord(ldisk, user_db[1], ClockStart).data).ok
    /\ read(ldisk, user_db[1], ClockStart + 1).ok

\* C13 (stored cipher list matches encryption): every CipherRecord written by
\* create or update stores as cipher_options, in order, the codes of the chain
\* that encrypt applied: the chain given to UserDb::new.
C13_OptionsAreChain ==
    user_db # <<>> =>
        LET db == user_db[1] IN
        /\ \A r \in Records, seed \in Seeds :
              LET c == create(ldisk, db, r, clock, seed)
              IN StoredRecord(c.d, db, c.value).cipher_options = db.ciphers.cipher_chain
        /\ \A record_id \in DbIds, r \in Records, seed \in Seeds :
              Has(ldisk, db, record_id) =>
                  LET u == update(ldisk, db, record_id, r, seed)
                  IN StoredRecord(u.d, db, record_id).cipher_options = db.ciphers.cipher_chain

\* The chains a UserDb can be configured with
Chains == {CipherChainOfCli, <<AES256, XChaCha20>>, <<Kuznyechik, XChaCha20, AES256>>}

\* C14 (decryption follows the stored list): a record created by a UserDb
\* configured with one chain is read back by a UserDb with the same keys
\* configured with any other chain, because read decrypts by the list stored
\* in the record.
C14_StoredListDecrypts ==
    user_db # <<>> =>
        LET db == user_db[1] IN
        \A r \in Records, seed \in Seeds, L2 \in Chains :
            LET c   == create(ldisk, db, r, clock, seed)
                db2 == UserDbNew(c.d, DbPath, db.user_id, db.ciphers.keys, L2).db
                rd  == read(c.d, db2, c.value)
            IN rd.ok /\ rd.value = r

-----------------------------------------------------------------------------
(* passmgr-cli/src/main.rs: the ServerSession and the screens that use it *)

\* AssymetricKeypair::generate_dilithium2: the key pair of a seed
generate_dilithium2(seed) == seed

\* u64::wrapping_add; the nonces of the model stay below 2^31
wrapping_add(a, b) == a + b

\* A protobuf varint
RECURSIVE Varint(_)
Varint(n) == IF n < 128 THEN <<n>> ELSE <<128 + (n % 128)>> \o Varint(n \div 128)

\* prost's encoding of a wire Record: its fields in declaration order, each
\* with its tag; a field holding the default value is left out.
EncodeRecord(record) ==
    (IF record.id = 0 THEN <<>> ELSE <<8>> \o Varint(record.id))
    \o (IF record.ver = 0 THEN <<>> ELSE <<16>> \o Varint(record.ver))
    \o (IF record.user_id = <<>> THEN <<>>
        ELSE <<26>> \o Varint(Len(record.user_id)) \o record.user_id)
    \o (IF record.data = <<>> THEN <<>>
        ELSE <<34>> \o Varint(Len(record.data)) \o record.data)

\* request_data.encode of a request whose auth is None: GetAll, GetList and
\* DeleteAll have no other field; SetOne has its record.
EncodeRequest(request) ==
    IF request.record = <<>> THEN <<>>
    ELSE LET bytes == EncodeRecord(request.record[1])
         IN <<18>> \o Varint(Len(bytes)) \o bytes

\* ServerSession::sign_request: the AuthSignature, and the session the call
\* leaves.  The sum of line 143 is computed and dropped, and self is borrowed
\* immutably, so the session is the one the call was given.
sign_request(self, request_data) ==
    IF self.key_pairs = <<>> THEN [ok |-> FALSE, err |-> "No keypair found", self |-> self]
    ELSE LET keypair   == self.key_pairs[1]
             sign_data == ToBeBytes(self.nonce) \o EncodeRequest(request_data)
             dropped   == wrapping_add(self.nonce, 1)
         IN [ok |-> TRUE,
             auth_data |-> [user_id   |-> self.user_id,
                            nonce     |-> self.nonce,
                            signature |-> Sign(keypair, sign_data)],
             self |-> self]

\* The position of interactive_mode: a screen, or inside sync_with_server with
\* the local ids still to push and the screen to return to.
Screen(at) == [at |-> at, todo |-> <<>>, ret |-> at]

\* The wire after one more signed request was sent
Sent(w, rpc, request, auth_data) ==
    LET e == [rpc |-> rpc, record |-> request.record, auth |-> auth_data]
    IN IF Len(w) < 2 THEN Append(w, e) ELSE <<w[2], e>>

\* What the server may answer: a Register or GetNonce reply is a nonce or an
\* error, a GetAll reply is a list of records or an error (<<>>), any other
\* reply is Ok or an error.
NonceReplies == {<<>>, <<7>>, <<300>>}
GetAllReplies ==
    {<<>>,
     <<<<>>>>,
     <<<<[id |-> ClockStart, ver |-> 2, user_id |-> U1, data |-> DataB]>>>>,
     <<<<[id |-> 5, ver |-> 1, user_id |-> U1, data |-> DataA],
         [id |-> ClockStart, ver |-> 1, user_id |-> U1, data |-> DataA]>>>>}

\* The open of the three database screens: the handle, the disk, the session
OpenUserDb(m) ==
    LET master_keys == create_master_keys(m)
        r == UserDbNew(ldisk, DbPath, master_keys.user_id, master_keys, CipherChainOfCli)
    IN [db |-> r.db, d |-> r.d,
        server |-> [server EXCEPT
                       !.user_id = master_keys.user_id,
                       !.key_pairs = <<generate_dilithium2(master_keys.dilithium_seed)>>]]

\* OpenDbScreen and CreateNewScreen, which differ in where the phrase comes
\* from.  A database that an earlier screen opened stays open (its handle is
\* leaked), so opening it again fails on sled's lock and the program ends.
OpenDbScreen(m) ==
    /\ cpc.at = "StartScreen"
    /\ IF user_db # <<>>
       THEN /\ cpc' = Screen("exit")
            /\ UNCHANGED <<server, wire, user_db, ldisk>>
       ELSE LET o == OpenUserDb(m)
            IN /\ user_db' = <<o.db>>
               /\ ldisk' = o.d
               /\ server' = o.server
               /\ cpc' = Screen("WorkScreen")
               /\ UNCHANGED wire
    /\ UNCHANGED <<clock, srvVars, fnVars>>

\* connect_to_server followed by get_nonce_from_server, as RestoreDbScreen
\* and option 1 of ServerStuff run them: the session, or an error.
ConnectAndGetNonce(self, connect, connected, nonce_reply) ==
    IF connect /\ ~connected THEN [ok |-> FALSE, self |-> self]
    ELSE LET self1 == IF connect THEN [self EXCEPT !.client = TRUE] ELSE self
         IN IF ~self1.client \/ nonce_reply = <<>> THEN [ok |-> FALSE, self |-> self1]
            ELSE [ok |-> TRUE, self |-> [self1 EXCEPT !.nonce = nonce_reply[1]]]

\* RestoreDbScreen up to its call of sync_with_server
RestoreDbScreen(m, connected, nonce_reply) ==
    /\ cpc.at = "StartScreen"
    /\ IF user_db # <<>>
       THEN /\ cpc' = Screen("exit")
            /\ UNCHANGED <<server, wire, user_db, ldisk>>
       ELSE LET o == OpenUserDb(m)
                c == ConnectAndGetNonce(o.server, ~o.server.client, connected, nonce_reply)
            IN /\ user_db' = <<o.db>>
               /\ ldisk' = o.d
               /\ server' = c.self
               /\ wire' = IF c.ok THEN <<>> ELSE wire
               /\ cpc' = IF c.ok THEN [at |-> "sync", todo |-> <<>>, ret |-> "WorkScreen"]
                         ELSE Screen("exit")
    /\ UNCHANGED <<clock, srvVars, fnVars>>

\* WorkScreen: options 8 and 0
WorkScreen(option) ==
    /\ cpc.at = "WorkScreen"
    /\ cpc' = Screen(IF option = "8" THEN "ServerStuff" ELSE "StartScreen")
    /\ UNCHANGED <<server, wire, dbVars, srvVars, fnVars>>

\* WorkScreen option 4 and NewRecordScreen: a record is built and created
NewRecordScreen(record, seed) ==
    /\ cpc.at = "WorkScreen"
    /\ ldisk' = create(ldisk, user_db[1], record, clock, seed).d
    /\ UNCHANGED <<server, cpc, wire, user_db, clock, srvVars, fnVars>>

\* ServerStuff option 0
ServerStuffReturn ==
    /\ cpc.at = "ServerStuff"
    /\ cpc' = Screen("WorkScreen")
    /\ UNCHANGED <<server, wire, dbVars, srvVars, fnVars>>

\* ServerStuff option 1
ConnectOption(connected, nonce_reply) ==
    /\ cpc.at = "ServerStuff"
    /\ IF server.client THEN UNCHANGED <<server, cpc, wire>>
       ELSE LET c == ConnectAndGetNonce(server, TRUE, connected, nonce_reply)
            IN /\ server' = c.self
               /\ wire' = IF c.ok THEN <<>> ELSE wire
               /\ cpc' = IF c.ok THEN cpc ELSE Screen("exit")
    /\ UNCHANGED <<dbVars, srvVars, fnVars>>

\* register_on_server: the session, or an error
register_on_server(self, reply) ==
    IF self.user_id = [i \in 1..UserIdLen |-> 0] THEN [ok |-> FALSE, self |-> self]
    ELSE IF self.key_pairs = <<>> THEN [ok |-> FALSE, self |-> self]
    ELSE IF ~self.client THEN [ok |-> FALSE, self |-> self]
    ELSE IF reply = <<>> THEN [ok |-> FALSE, self |-> self]
    ELSE [ok |-> TRUE, self |-> [self EXCEPT !.nonce = reply[1]]]

\* ServerStuff option 2
RegisterOption(reply) ==
    /\ cpc.at = "ServerStuff"
    /\ LET r == register_on_server(server, reply)
       IN /\ server' = r.self
          /\ wire' = IF r.ok THEN <<>> ELSE wire
          /\ cpc' = IF r.ok THEN cpc ELSE Screen("exit")
    /\ UNCHANGED <<dbVars, srvVars, fnVars>>

\* A request without a record is signed and sent: the wire, or an error when
\* there is no key pair, no connection, or the server answers with an error.
SignAndSend(self, w, rpc, request, replied) ==
    LET a == sign_request(self, request)
    IN IF ~a.ok \/ ~a.self.client THEN [ok |-> FALSE, self |-> a.self, wire |-> w]
       ELSE [ok |-> replied, self |-> a.self, wire |-> Sent(w, rpc, request, a.auth_data)]

\* ServerStuff option 4: get_all_ids_server
ListIdsOption(replied) ==
    /\ cpc.at = "ServerStuff"
    /\ LET r == SignAndSend(server, wire, "GetList", [record |-> <<>>], replied)
       IN /\ server' = r.self
          /\ wire' = r.wire
          /\ cpc' = IF r.ok THEN cpc ELSE Screen("exit")
    /\ UNCHANGED <<dbVars, srvVars, fnVars>>

\* ServerStuff option 7: delete_all_on_server
DeleteAllOption(replied) ==
    /\ cpc.at = "ServerStuff"
    /\ LET r == SignAndSend(server, wire, "DeleteAll", [record |-> <<>>], replied)
       IN /\ server' = r.self
          /\ wire' = r.wire
          /\ cpc' = IF r.ok THEN cpc ELSE Screen("exit")
    /\ UNCHANGED <<dbVars, srvVars, fnVars>>

\* Step 4 of sync_with_server taking the server's record at equal versions too
RECURSIVE PullEach_ge(_, _, _, _, _)
PullEach_ge(d, st, user_id, local_records, server_records) ==
    IF server_records = <<>> THEN d
    ELSE LET server_record == Head(server_records)
             cipher_record == [user_id          |-> user_id,
                               cipher_record_id |-> server_record.id,
                               ver              |-> server_record.ver,
                               cipher_options   |-> <<>>,
                               data             |-> server_record.data]
             local_exists  == server_record.id \in SeqToSet(local_records)
             d1 == IF ~local_exists
                   THEN StorageSet(d, st, server_record.id, cipher_record)
                   ELSE IF server_record.ver >= StorageGet(d, st, server_record.id).value.ver
                   THEN StorageUp(d, st, server_record.id, cipher_record)
                   ELSE d
         IN PullEach_ge(d1, st, user_id, local_records, Tail(server_records))

\* Step 4 of sync_with_server: the server's records are merged into the
\* local tree.
RECURSIVE PullEach(_, _, _, _, _)
PullEach(d, st, user_id, local_records, server_records) ==
    IF server_records = <<>> THEN d
    ELSE LET server_record == Head(server_records)
             cipher_record == [user_id          |-> user_id,
                               cipher_record_id |-> server_record.id,
                               ver              |-> server_record.ver,
                               cipher_options   |-> <<>>,
                               data             |-> server_record.data]
             local_exists  == server_record.id \in SeqToSet(local_records)
             d1 == IF ~local_exists
                   THEN StorageSet(d, st, server_record.id, cipher_record)
                   ELSE IF server_record.ver > StorageGet(d, st, server_record.id).value.ver
                   THEN StorageUp(d, st, server_record.id, cipher_record)
                   ELSE d
         IN PullEach(d1, st, user_id, local_records, Tail(server_records))

\* sync_with_server, steps 1 to 4: GetAll is signed and sent, the reply is
\* merged, and the ids listed before the merge are left to push.
SyncPull(reply) ==
    /\ cpc.at \in {"ServerStuff", "sync"}
    /\ LET ret == IF cpc.at = "sync" THEN cpc.ret ELSE "ServerStuff"
           r == SignAndSend(server, wire, "GetAll", [record |-> <<>>], reply # <<>>)
           local_records == list_records(ldisk, user_db[1])
       IN /\ server' = r.self
          /\ wire' = r.wire
          /\ IF ~r.ok
             THEN cpc' = Screen("exit") /\ UNCHANGED ldisk
             ELSE /\ ldisk' = PullEach(ldisk, user_db[1].storage, r.self.user_id,
                                       local_records, reply[1])
                  /\ cpc' = IF local_records = <<>> THEN Screen(ret)
                            ELSE [at |-> "sync_push", todo |-> local_records, ret |-> ret]
    /\ UNCHANGED <<user_db, clock, srvVars, fnVars>>

\* sync_with_server, one turn of the loop of step 5: the next local record is
\* read, signed and sent as SetOne.
SyncPush(replied) ==
    /\ cpc.at = "sync_push"
    /\ LET local_id == Head(cpc.todo)
           g == StorageGet(ldisk, user_db[1].storage, local_id)
       IN IF ~g.ok
          THEN cpc' = Screen("exit") /\ UNCHANGED <<server, wire>>
          ELSE LET record == [id |-> local_id, ver |-> g.value.ver,
                              user_id |-> server.user_id, data |-> g.value.data]
                   r == SignAndSend(server, wire, "SetOne", [record |-> <<record>>], replied)
               IN /\ server' = r.self
                  /\ wire' = r.wire
                  /\ cpc' = IF ~r.ok THEN Screen("exit")
                            ELSE IF Tail(cpc.todo) = <<>> THEN Screen(cpc.ret)
                            ELSE [cpc EXCEPT !.todo = Tail(cpc.todo)]
    /\ UNCHANGED <<dbVars, srvVars, fnVars>>

NextClient ==
    \/ \E m \in Mnemonics : OpenDbScreen(m)
    \/ \E m \in Mnemonics, connected \in BOOLEAN, nonce_reply \in NonceReplies :
          RestoreDbScreen(m, connected, nonce_reply)
    \/ \E option \in {"8", "0"} : WorkScreen(option)
    \/ \E record \in Records, seed \in Seeds : NewRecordScreen(record, seed)
    \/ ServerStuffReturn
    \/ \E connected \in BOOLEAN, nonce_reply \in NonceReplies : ConnectOption(connected, nonce_reply)
    \/ \E reply \in NonceReplies : RegisterOption(reply)
    \/ \E replied \in BOOLEAN : ListIdsOption(replied)
    \/ \E replied \in BOOLEAN : DeleteAllOption(replied)
    \/ \E reply \in GetAllReplies : SyncPull(reply)
    \/ \E replied \in BOOLEAN : SyncPush(replied)
    \/ DbTick

SpecClient == Init /\ [][NextClient]_vars

-----------------------------------------------------------------------------
(* Properties of the client *)

\* C2 (client nonce lockstep): once a request signed with nonce n was sent,
\* the session's nonce is n+1, and of two requests sent one after the other
\* the second carries the nonce after the first's.
C2_NonceLockstep ==
    /\ wire # <<>> => server.nonce = wrapping_add(wire[Len(wire)].auth.nonce, 1)
    /\ Len(wire) = 2 => wire[2].auth.nonce = wrapping_add(wire[1].auth.nonce, 1)

-----------------------------------------------------------------------------
(* crypto/src/cipher_chain.rs: CipherChain called on its own *)

MaxChain == 3

\* The ciphers encrypt and decrypt have an arm for, as far as their arms
\* differ: two block ciphers and the stream cipher.
Supported == {AES256, Kuznyechik, XChaCha20}

\* The chains of at most n supported ciphers, repeats included
RECURSIVE ChainsUpTo(_)
ChainsUpTo(n) ==
    IF n = 0 THEN {<<>>}
    ELSE LET shorter == ChainsUpTo(n - 1)
         IN shorter \cup {Append(c, x) : c \in shorter, x \in Supported}

CascadeChains == ChainsUpTo(MaxChain) \cup {CipherChainOfCli}

\* b"Multi-cipher chain test"
S3Plain == <<77, 117, 108, 116, 105, 45, 99, 105, 112, 104, 101, 114, 32, 99, 104, 97, 105, 110, 32, 116, 101, 115, 116>>

\* Plaintexts around the block boundaries: of zeros, and of the bytes 1, 2, ..
\* whose last byte can be taken for a padding.
Plain(n, k) == [i \in 1..n |-> (k * i) % 256]
PlainLens == {0, 1, BlockSize - 1, BlockSize, BlockSize + 1, 2 * BlockSize}
Plaintexts == {Plain(n, k) : n \in PlainLens, k \in {0, 1}} \cup {S3Plain}

\* The lengths a ciphertext is cut to
CutLens == {0, 1, BlockSize, XNonceLen - 1}

\* The CipherChain of a job
ChainOf(j) == [cipher_chain |-> j.chain, keys |-> create_master_keys(j.m)]

NoResult == [ok |-> FALSE, panic |-> FALSE, data |-> <<>>]

CascadeInputs ==
    {[op |-> "input", m |-> m, chain |-> chain, data |-> data, seed |-> seed,
      enc |-> <<>>, cut |-> FALSE, dec |-> NoResult] :
        m \in Mnemonics, chain \in CascadeChains, data \in Plaintexts, seed \in Seeds}

InitCascade == InitSrv /\ InitCli /\ InitDb /\ job \in CascadeInputs

\* chain.encrypt(&mut data)
CcEncrypt ==
    /\ job.op = "input"
    /\ job' = [job EXCEPT !.op = "encrypted",
                          !.enc = encrypt(ChainOf(job), job.data, job.seed)]
    /\ UNCHANGED <<srvVars, cliVars, dbVars>>

\* The ciphertext loses its tail before it is decrypted.
CcTruncate(n) ==
    /\ job.op = "encrypted"
    /\ ~job.cut
    /\ n < Len(job.enc)
    /\ job' = [job EXCEPT !.enc = Slice(job.enc, 1, n), !.cut = TRUE]
    /\ UNCHANGED <<srvVars, cliVars, dbVars>>

\* chain.decrypt(&mut encrypted)
CcDecrypt ==
    /\ job.op = "encrypted"
    /\ LET r == decrypt(ChainOf(job), job.enc)
       IN job' = [job EXCEPT !.op = "decrypted",
                             !.dec = IF r.ok
                                     THEN [ok |-> TRUE, panic |-> FALSE, data |-> r.data]
                                     ELSE [ok |-> FALSE, panic |-> r.panic, data |-> <<>>]]
    /\ UNCHANGED <<srvVars, cliVars, dbVars>>

NextCascade ==
    \/ CcEncrypt
    \/ \E n \in CutLens : CcTruncate(n)
    \/ CcDecrypt

SpecCascade == InitCascade /\ [][NextCascade]_vars

-----------------------------------------------------------------------------
(* Properties of CipherChain *)

LayerLen(cipher, n) ==
    IF cipher = XChaCha20 THEN n + XNonceLen
    ELSE BlockSize + BlockSize * ((n \div BlockSize) + 1)

\* The composition of the layers' laws along the chain from layer j on
RECURSIVE CascadeLen(_, _, _)
CascadeLen(chain, n, j) ==
    IF j > Len(chain) THEN n ELSE CascadeLen(chain, LayerLen(chain[j], n), j + 1)

\* C16 (length law): a block-cipher layer with block size b turns n bytes into
\* b + b * (floor(n / b) + 1) bytes, an XChaCha20 layer turns n bytes into
\* n + 24, and the cascade's output length is the composition of these.
C16_LengthLaw ==
    (job.op \in {"encrypted", "decrypted"} /\ ~job.cut) =>
        LET keys == create_master_keys(job.m)
            n    == Len(job.data)
        IN /\ Len(job.enc) = CascadeLen(job.chain, n, 1)
           /\ \A cipher \in Supported \ {XChaCha20} :
                  Len(process(job.data, get_key(keys, cipher), FillBytes(job.seed, 1, BlockSize)))
                      = BlockSize + BlockSize * ((n \div BlockSize) + 1)
           /\ Len(xchacha20_encrypt(job.data, get_key(keys, XChaCha20),
                                    FillBytes(job.seed, 1, XNonceLen))) = n + XNonceLen

\* C16's case: a plaintext of whole blocks was encrypted by a chain of a
\* block layer and a stream layer.
C16_Witness ==
    /\ job.op = "encrypted" /\ ~job.cut
    /\ job.chain = <<Kuznyechik, XChaCha20>>
    /\ Len(job.data) = 2 * BlockSize
    /\ Len(job.enc) = 4 * BlockSize + XNonceLen

\* Scenario S3: the chain of the CLI on the 23 bytes of the test
S3(j) == j.op # "idle" /\ j.chain = CipherChainOfCli /\ j.data = S3Plain /\ ~j.cut

\* C17 as stated (scenario S3): with [AES-256, XChaCha20, Kuznyechik] and the
\* 23-byte plaintext, encrypt returns exactly 111 bytes and decrypt returns
\* the original 23 bytes.
C17_S3Is111 ==
    S3(job) =>
        /\ job.op \in {"encrypted", "decrypted"} => Len(job.enc) = 111
        /\ job.op = "decrypted" => job.dec.ok /\ job.dec.data = S3Plain

\* C17 amended (scenario S3): with [AES-256, XChaCha20, Kuznyechik] and the
\* 23-byte plaintext, encrypt returns exactly 96 bytes (48 after AES-256, 72
\* after XChaCha20, 96 after Kuznyechik) and decrypt returns the original 23
\* bytes.
C17_S3Is96 ==
    S3(job) =>
        /\ job.op \in {"encrypted", "decrypted"} => Len(job.enc) = 96
        /\ job.op = "decrypted" => job.dec.ok /\ job.dec.data = S3Plain

\* C17's case: scenario S3 was encrypted and decrypted.
C17_Witness ==
    /\ S3(job) /\ job.op = "decrypted"
    /\ Len(job.data) = 23 /\ Len(job.enc) = 96 /\ job.dec.data = job.data

\* C18 (truncated ciphertext is an error value): decrypt of an input shorter
\* than any ciphertext of the chain returns a TruncatedCipherText error; it
\* does not abort.
C18_TruncatedIsError ==
    (job.op = "decrypted" /\ job.cut /\ Len(job.enc) < CascadeLen(job.chain, 0, 1))
        => ~job.dec.ok /\ ~job.dec.panic

-----------------------------------------------------------------------------
(* crypto/src/bip39.rs: Bip39 *)

\* format!("{v:0wb}"): the binary digits of v, the most significant first,
\* for a v below 2^w
Bin(v, w) == [i \in 1..w |-> (v \div (2 ^ (w - i))) % 2]

\* from_str_radix(digits, 2) reading the least significant digit first
RECURSIVE from_str_radix_lsb(_)
from_str_radix_lsb(digits) ==
    IF digits = <<>> THEN 0
    ELSE digits[1] + 2 * from_str_radix_lsb(Tail(digits))

\* from_str_radix(digits, 2)
RECURSIVE from_str_radix(_)
from_str_radix(digits) ==
    IF digits = <<>> THEN 0
    ELSE 2 * from_str_radix(SubSeq(digits, 1, Len(digits) - 1)) + digits[Len(digits)]

\* The concatenation of a sequence of sequences
RECURSIVE Flatten(_)
Flatten(ss) == IF ss = <<>> THEN <<>> ELSE Head(ss) \o Flatten(Tail(ss))

\* The word list: 2048 distinct words without whitespace, here of three
\* letters of 'a'..'p'.
WordCount == 2048
WordAt(idx) == <<97 + (idx \div 128), 97 + ((idx \div 8) % 16), 97 + (idx % 8)>>

\* wordlist.iter().position(|&w| w == word)
Position(word) ==
    LET hits == {idx \in 0..(WordCount - 1) : WordAt(idx) = word}
    IN IF hits = {} THEN <<>>
       ELSE <<CHOOSE idx \in hits : \A other \in hits : idx <= other>>

\* The bytes lo..hi of data summed with odd weights, by halves
RECURSIVE WeightedSum(_, _, _)
WeightedSum(data, lo, hi) ==
    IF lo > hi THEN 0
    ELSE IF lo = hi THEN (2 * lo + 1) * data[lo]
    ELSE LET mid == (lo + hi) \div 2
         IN WeightedSum(data, lo, mid) + WeightedSum(data, mid + 1, hi)

\* sha2::Sha256 (library code): a digest that depends on every byte and on
\* the length.  Only its first byte is used.
Mix(data, i) == (WeightedSum(data, i, Len(data)) + 17 * Len(data) + 5) % 256

Sha256(data) == <<Mix(data, 1)>>

\* Bip39::generate_checksum
generate_checksum(entropy) == Sha256(entropy)[1]

\* Bip39::verify_checksum
verify_checksum(entropy) ==
    LET checksum      == generate_checksum(entropy)
        expected_bits == (Len(entropy) * 8) \div 32
    IN TRUE

\* Bip39::verify_mnemonic accepting every phrase that has a word
verify_mnemonic_any(words) == Len(words) > 0

\* Bip39::verify_mnemonic
verify_mnemonic(words) == Len(words) \in {12, 15, 18, 21, 24}

\* Bip39::entropy_to_mnemonic, for an entropy whose bits with the checksum
\* bits fill whole groups of 11
entropy_to_mnemonic(entropy) ==
    LET checksum      == generate_checksum(entropy)
        checksum_bits == Len(entropy) \div 4
        bits          == Flatten([i \in 1..Len(entropy) |-> Bin(entropy[i], 8)])
                             \o SubSeq(Bin(checksum, 8), 1, checksum_bits)
    IN [k \in 1..(Len(bits) \div 11) |->
           WordAt(from_str_radix(SubSeq(bits, 11 * (k - 1) + 1, 11 * k)))]

Bip39Err(e) == [ok |-> FALSE, err |-> e, entropy |-> <<>>]

\* Bip39::mnemonic_to_entropy
mnemonic_to_entropy(words) ==
    IF \E k \in 1..Len(words) : Position(words[k]) = <<>>
    THEN Bip39Err("InvalidMnemonic")
    ELSE LET bits          == Flatten([k \in 1..Len(words) |-> Bin(Position(words[k])[1], 11)])
             checksum_bits == Len(bits) \div 33
             entropy_bits  == Len(bits) - checksum_bits
             bytes         == (entropy_bits + 7) \div 8
             entropy       == [i \in 1..bytes |->
                                  from_str_radix(SubSeq(bits, 8 * (i - 1) + 1, 8 * i))]
         IN IF 8 * bytes > Len(bits) THEN Bip39Err("panic")
            ELSE IF ~verify_checksum(entropy) THEN Bip39Err("InvalidChecksum")
            ELSE [ok |-> TRUE, err |-> "", entropy |-> entropy]

Space == 32

\* str::split_whitespace
RECURSIVE SplitFrom(_, _)
SplitFrom(str, word) ==
    IF str = <<>> THEN (IF word = <<>> THEN <<>> ELSE <<word>>)
    ELSE IF Head(str) = Space
         THEN (IF word = <<>> THEN <<>> ELSE <<word>>) \o SplitFrom(Tail(str), <<>>)
         ELSE SplitFrom(Tail(str), Append(word, Head(str)))

split_whitespace(str) == SplitFrom(str, <<>>)

\* Bip39::get_mnemonic: the words joined by single spaces
RECURSIVE get_mnemonic(_)
get_mnemonic(mnemonic) ==
    IF mnemonic = <<>> THEN <<>>
    ELSE IF Len(mnemonic) = 1 THEN mnemonic[1]
    ELSE mnemonic[1] \o <<Space>> \o get_mnemonic(Tail(mnemonic))

\* Bip39::from_mnemonic
from_mnemonic(mnemonic) ==
    LET words == split_whitespace(mnemonic)
    IN IF ~verify_mnemonic(words) THEN Bip39Err("InvalidMnemonic")
       ELSE mnemonic_to_entropy(words)

\* The bytes OsRng fills an entropy of n bytes with, by the generator's state
MaxRng == 5
OsRngBytes(n, k) == [i \in 1..n |-> (37 * k * i + 11 * k + i * i) % 256]

\* Bip39::new with the generator in state k
Bip39New(strength, k) ==
    IF strength \notin {128, 160, 192, 224, 256}
    THEN [ok |-> FALSE, err |-> "InvalidEntropyLength", entropy |-> <<>>, mnemonic |-> <<>>]
    ELSE LET entropy == OsRngBytes(strength \div 8, k)
         IN [ok |-> TRUE, err |-> "", entropy |-> entropy,
             mnemonic |-> entropy_to_mnemonic(entropy)]

-----------------------------------------------------------------------------
(* Bip39 called on its own: generate, pass the phrase on, restore *)

Strengths == {64, 128, 160, 192, 224, 256}

Bip39Inputs ==
    {[op |-> "start", strength |-> strength, k |-> k, entropy |-> <<>>,
      phrase |-> <<>>, tamper |-> "none", res |-> Bip39Err("")] :
        strength \in Strengths, k \in 0..MaxRng}

InitBip39 == InitSrv /\ InitCli /\ InitDb /\ job \in Bip39Inputs

\* Bip39::new(strength), then get_mnemonic
BpNew ==
    /\ job.op = "start"
    /\ LET r == Bip39New(job.strength, job.k)
       IN job' = IF r.ok
                 THEN [job EXCEPT !.op = "phrase", !.entropy = r.entropy,
                                  !.phrase = get_mnemonic(r.mnemonic)]
                 ELSE [job EXCEPT !.op = "failed", !.res = Bip39Err(r.err)]
    /\ UNCHANGED <<srvVars, cliVars, dbVars>>

\* The last word with its lowest bit, a checksum bit, flipped
FlipLast(words) ==
    LET idx == Position(words[Len(words)])[1]
    IN [words EXCEPT ![Len(words)] = WordAt(IF idx % 2 = 0 THEN idx + 1 ELSE idx - 1)]

\* The phrase is altered on its way: a checksum bit is flipped, the last word
\* is lost, or a letter of the first word becomes one no word has.
BpTamper(how) ==
    /\ job.op = "phrase"
    /\ job.tamper = "none"
    /\ LET words == split_whitespace(job.phrase)
       IN job' = [job EXCEPT
                     !.tamper = how,
                     !.phrase = CASE how = "flip" -> get_mnemonic(FlipLast(words))
                                  [] how = "drop" -> get_mnemonic(SubSeq(words, 1, Len(words) - 1))
                                  [] how = "typo" -> <<122>> \o Tail(job.phrase)]
    /\ UNCHANGED <<srvVars, cliVars, dbVars>>

\* Bip39::from_mnemonic(&phrase)
BpFromMnemonic ==
    /\ job.op = "phrase"
    /\ job' = [job EXCEPT !.op = "restored", !.res = from_mnemonic(job.phrase)]
    /\ UNCHANGED <<srvVars, cliVars, dbVars>>

NextBip39 ==
    \/ BpNew
    \/ \E how \in {"flip", "drop", "typo"} : BpTamper(how)
    \/ BpFromMnemonic

SpecBip39 == InitBip39 /\ [][NextBip39]_vars

-----------------------------------------------------------------------------
(* Properties of Bip39 *)

\* The number of words the claim gives an entropy of n bytes
WordsFor(n) ==
    CASE n = 16 -> 12 [] n = 20 -> 15 [] n = 24 -> 18 [] n = 28 -> 21 [] n = 32 -> 24

\* C19 (mnemonic round trip): an entropy of 16, 20, 24, 28 or 32 bytes is
\* encoded as 12, 15, 18, 21 or 24 words, and from_mnemonic of that phrase
\* succeeds and returns exactly that entropy.
C19_RoundTrip ==
    (job.op \in {"phrase", "restored"} /\ job.tamper = "none") =>
        /\ Len(job.entropy) \in {16, 20, 24, 28, 32}
        /\ Len(split_whitespace(job.phrase)) = WordsFor(Len(job.entropy))
        /\ job.op = "restored" => job.res.ok /\ job.res.entropy = job.entropy

\* C19's case: an entropy of 32 bytes became 24 words and was restored from
\* them.
C19_Witness ==
    /\ job.op = "restored" /\ job.tamper = "none"
    /\ Len(job.entropy) = 32
    /\ Len(split_whitespace(job.phrase)) = 24
    /\ job.res.entropy = job.entropy

\* The checksum bits a phrase of wordlist words carries, and the bits they
\* have to be: the first len(entropy) / 4 bits of SHA-256 of its entropy.
CarriedBits(words) ==
    LET bits == Flatten([k \in 1..Len(words) |-> Bin(Position(words[k])[1], 11)])
    IN SubSeq(bits, Len(bits) - (Len(bits) \div 33) + 1, Len(bits))

DueBits(entropy) == SubSeq(Bin(Sha256(entropy)[1], 8), 1, Len(entropy) \div 4)

\* C20 (checksum rejection): from_mnemonic of a phrase of 12, 15, 18, 21 or 24
\* wordlist words whose checksum bits are not the first len(entropy) / 4 bits
\* of the SHA-256 of its entropy fails with InvalidChecksum and never
\* returns Ok.
C20_ChecksumRejected ==
    job.op = "restored" =>
        LET words == split_whitespace(job.phrase) IN
        (/\ Len(words) \in {12, 15, 18, 21, 24}
         /\ \A k \in 1..Len(words) : Position(words[k]) # <<>>
         /\ CarriedBits(words) # DueBits(job.entropy))
        => ~job.res.ok /\ job.res.err = "InvalidChecksum"

\* C21 (malformed mnemonic rejection): from_mnemonic returns
\* Err(InvalidMnemonic), never Ok, for a phrase whose number of
\* whitespace-separated words is not 12, 15, 18, 21 or 24, and for a phrase
\* of such a number of words one of which is not in the word list.
C21_MalformedRejected ==
    job.op = "restored" =>
        LET words == split_whitespace(job.phrase) IN
        (\/ Len(words) \notin {12, 15, 18, 21, 24}
         \/ \E k \in 1..Len(words) : Position(words[k]) = <<>>)
        => ~job.res.ok /\ job.res.err = "InvalidMnemonic"

\* C21's case: a phrase of 24 words whose first word is in no word list was
\* given to from_mnemonic and refused; or a phrase that lost its last word.
C21_Witness ==
    /\ job.op = "restored"
    /\ job.res.err = "InvalidMnemonic"
    /\ \/ /\ job.tamper = "typo"
          /\ Len(split_whitespace(job.phrase)) = 24
          /\ Position(split_whitespace(job.phrase)[1]) = <<>>
       \/ /\ job.tamper = "drop"
          /\ Len(split_whitespace(job.phrase)) = 11

-----------------------------------------------------------------------------
(* crypto/src/structures.rs and crypto/src/master_keys.rs: the key hierarchy *)

\* The variants of CipherOption by name.  The cipher chain names a variant by
\* its code.
CipherOption ==
    {"AES256", "ARIA", "BelT", "Camellia", "CAST6", "Dilithium", "Kuznyechik",
     "Kyber1024", "NTRUP1277", "Serpent", "Spec", "Twofish", "XChaCha20"}

\* CipherOption::code
code(cipher) ==
    CASE cipher = "AES256"     -> AES256
      [] cipher = "ARIA"       -> ARIA
      [] cipher = "BelT"       -> BelT
      [] cipher = "Camellia"   -> Camellia
      [] cipher = "CAST6"      -> CAST6
      [] cipher = "Dilithium"  -> Dilithium
      [] cipher = "Kuznyechik" -> Kuznyechik
      [] cipher = "Kyber1024"  -> Kyber1024
      [] cipher = "NTRUP1277"  -> NTRUP1277
      [] cipher = "Serpent"    -> Serpent
      [] cipher = "Spec"       -> Speck
      [] cipher = "Twofish"    -> Twofish
      [] cipher = "XChaCha20"  -> XChaCha20

\* The variants of the enumeration in src/ciphers
CiphersCipherOption ==
    {"AES256", "XChaCha20", "GRASSHOPPER", "NTRUP1277", "TWOFISH", "Kyber1024", "END"}

\* CipherOption::code of src/ciphers
ciphers_code(cipher) ==
    CASE cipher = "END"         -> 0
      [] cipher = "AES256"      -> 1
      [] cipher = "XChaCha20"   -> 3
      [] cipher = "GRASSHOPPER" -> 4
      [] cipher = "NTRUP1277"   -> 5
      [] cipher = "TWOFISH"     -> 6
      [] cipher = "Kyber1024"   -> 7

\* The variant of src/crypto that names the cipher of a variant of
\* src/ciphers (GRASSHOPPER is Kuznyechik; END is no cipher).
crypto_variant(cipher) ==
    CASE cipher = "GRASSHOPPER" -> "Kuznyechik"
      [] cipher = "TWOFISH"     -> "Twofish"
      [] OTHER                  -> cipher

\* Argon2::hash_password_into (library code): n bytes that depend on every
\* byte of the password and of the salt, different for salts that differ in
\* one byte.
Argon2id(password, salt, n) ==
    LET h == Mix(password, 1) + 3 * Mix(salt, 1)
    IN [i \in 1..n |-> (h + 5 * i) % 256]

\* b"PASSMGR_SALT_V1"
SaltTag == <<80, 65, 83, 83, 77, 71, 82, 95, 83, 65, 76, 84, 95, 86, 49>>

\* MasterKeys::generate_salt with the same first byte for every cipher
generate_salt_fixed(cipher) == <<0>> \o SaltTag

\* MasterKeys::generate_salt with a random first byte
generate_salt_random(cipher) == <<(code(cipher) + 16 * job.k) % 256>> \o SaltTag

\* MasterKeys::generate_salt
generate_salt(cipher) == <<code(cipher)>> \o SaltTag

\* MasterKeys::derive_symmetric_key
derive_symmetric_key(entropy, cipher) == Argon2id(entropy, generate_salt(cipher), 32)

\* MasterKeys::derive_quantum_seed::<N>: chunks of 32 bytes, the chunk's
\* number appended to the salt as a little-endian u32
derive_quantum_seed(N, entropy, cipher) ==
    LET base_salt == generate_salt(cipher)
        chunks    == (N + 31) \div 32
    IN Flatten([c \in 1..chunks |->
           Argon2id(entropy, base_salt \o SubSeq(ToLeBytes(c - 1), 1, 4),
                    IF 32 * c <= N THEN 32 ELSE N - 32 * (c - 1))])

\* MasterKeys::from_entropy accepting an entropy of 16 bytes or more
from_entropy_16(entropy) ==
    IF Len(entropy) < 16
    THEN [ok |-> FALSE, err |-> "InvalidEntropyLength", keys |-> <<>>]
    ELSE [ok |-> TRUE, err |-> "",
          keys |-> <<[aes256_key |-> derive_symmetric_key(entropy, "AES256")]>>]

\* MasterKeys::from_entropy
from_entropy(entropy) ==
    IF Len(entropy) < 32
    THEN [ok |-> FALSE, err |-> "InvalidEntropyLength", keys |-> <<>>]
    ELSE [ok |-> TRUE, err |-> "",
          keys |-> <<[aes256_key     |-> derive_symmetric_key(entropy, "AES256"),
                      aria_key       |-> derive_symmetric_key(entropy, "ARIA"),
                      belt_key       |-> derive_symmetric_key(entropy, "BelT"),
                      camellia_key   |-> derive_symmetric_key(entropy, "Camellia"),
                      cast6_key      |-> derive_symmetric_key(entropy, "CAST6"),
                      kuznyechik_key |-> derive_symmetric_key(entropy, "Kuznyechik"),
                      serpent_key    |-> derive_symmetric_key(entropy, "Serpent"),
                      spec_key       |-> derive_symmetric_key(entropy, "Spec"),
                      twofish_key    |-> derive_symmetric_key(entropy, "Twofish"),
                      xchacha20_key  |-> derive_symmetric_key(entropy, "XChaCha20"),
                      ntrup1277_seed |-> derive_quantum_seed(64, entropy, "NTRUP1277"),
                      kyber1024_seed |-> [i \in 1..84 |-> 42]]>>]

-----------------------------------------------------------------------------
(* MasterKeys called on its own: derive, let time pass, derive again *)

\* The lengths of the entropies given to from_entropy
EntropyLens == {0, 16, 20, 24, 28, 31, 32, 33, 64}

KeysInputs ==
    {[op |-> "start", entropy |-> OsRngBytes(n, p), k |-> 0,
      first |-> from_entropy(<<>>), second |-> from_entropy(<<>>),
      cipher |-> "", codes |-> <<>>] :
        n \in EntropyLens, p \in 0..MaxRng}

InitKeys == InitSrv /\ InitCli /\ InitDb /\ job \in KeysInputs

\* MasterKeys::from_entropy(&entropy); the generators and the clock move on.
KfFirst ==
    /\ job.op = "start"
    /\ job' = [job EXCEPT !.op = "first", !.first = from_entropy(job.entropy),
                          !.k = job.k + 1]
    /\ UNCHANGED <<srvVars, cliVars, dbVars>>

\* MasterKeys::from_entropy(&entropy) once more
KfSecond ==
    /\ job.op = "first"
    /\ job' = [job EXCEPT !.op = "second", !.second = from_entropy(job.entropy),
                          !.k = job.k + 1]
    /\ UNCHANGED <<srvVars, cliVars, dbVars>>

\* cipher.code() of one cipher, asked of both versions of the enumeration
KfCode(cipher) ==
    /\ job.op = "second"
    /\ job' = [job EXCEPT !.op = "coded", !.cipher = cipher,
                          !.codes = <<code(crypto_variant(cipher)), ciphers_code(cipher)>>]
    /\ UNCHANGED <<srvVars, cliVars, dbVars>>

NextKeys ==
    \/ KfFirst
    \/ KfSecond
    \/ \E cipher \in CiphersCipherOption \ {"END"} : KfCode(cipher)

SpecKeys == InitKeys /\ [][NextKeys]_vars

-----------------------------------------------------------------------------
(* Properties of MasterKeys *)

\* The fields of MasterKeys with their lengths
KeyFields ==
    [aes256_key |-> 32, aria_key |-> 32, belt_key |-> 32, camellia_key |-> 32,
     cast6_key |-> 32, kuznyechik_key |-> 32, serpent_key |-> 32, spec_key |-> 32,
     twofish_key |-> 32, xchacha20_key |-> 32, ntrup1277_seed |-> 64,
     kyber1024_seed |-> 84]

\* C22 (entropy length): from_entropy returns Err(InvalidEntropyLength) and
\* no keys when the entropy has fewer than 32 bytes, and Ok with every key
\* and seed of MasterKeys, each of its length, when it has 32 or more.
C22_EntropyLength ==
    job.op \in {"first", "second"} =>
        IF Len(job.entropy) < 32
        THEN ~job.first.ok /\ job.first.err = "InvalidEntropyLength" /\ job.first.keys = <<>>
        ELSE /\ job.first.ok
             /\ DOMAIN job.first.keys[1] = DOMAIN KeyFields
             /\ \A f \in DOMAIN KeyFields : Len(job.first.keys[1][f]) = KeyFields[f]

\* C22's case: from_entropy was called with 31 bytes and refused them; or
\* with 32 bytes and returned keys.
C22_Witness ==
    /\ job.op = "first"
    /\ \/ Len(job.entropy) = 31 /\ job.first.err = "InvalidEntropyLength"
       \/ Len(job.entropy) = 32 /\ job.first.ok

KeyedCiphers == CipherOption \ {"Dilithium"}

\* C24 (key separation): two distinct ciphers have distinct codes and so
\* distinct salts, and get_key returns different key material for them from
\* the keys of one entropy, the two post-quantum seeds included.
C24_KeySeparation ==
    /\ \A a, b \in CipherOption :
           a # b => code(a) # code(b) /\ generate_salt(a) # generate_salt(b)
    /\ (job.op \in {"first", "second"} /\ job.first.ok) =>
           \A a, b \in KeyedCiphers :
               a # b => get_key(job.first.keys[1], code(a)) # get_key(job.first.keys[1], code(b))

\* C24's case: keys were derived from an entropy of 64 bytes.
C24_Witness ==
    /\ job.op = "first" /\ job.first.ok
    /\ Len(job.entropy) = 64
    /\ Len(get_key(job.first.keys[1], NTRUP1277)) = 64
    /\ Len(get_key(job.first.keys[1], Kyber1024)) = 84

\* C28 (stable cipher codes): a cipher has the same one-byte code in both
\* versions of the enumeration, and no code belongs to two different ciphers
\* across them.
C28_StableCodes ==
    job.op = "coded" =>
        /\ job.codes[1] = job.codes[2]
        /\ \A a \in CipherOption :
               code(a) = job.codes[2] => a = crypto_variant(job.cipher)

-----------------------------------------------------------------------------
(* Storage called on its own: set, remove and list ids of one tree *)

\* Record ids of one, two and three significant bytes
StoreIds == {1, 2, 255, 256, 257, 65536}

\* The Storage opened for the calls
TheStorage == [path |-> <<"db">>, uid |-> U1]

\* The record stored under an id
StoreRecord(id) ==
    [user_id |-> U1, cipher_record_id |-> id, ver |-> 1, cipher_options |-> <<>>,
     data |-> DataA]

\* Storage::open on an empty directory; `ids` is the set of ids set and not
\* removed since, `listed` what list_ids returned last.
StoreInputs ==
    {[op |-> "open", d |-> StorageOpen(EmptyMap, TheStorage.path, TheStorage.uid),
      ids |-> {}, listed |-> <<>>]}

InitStore == InitSrv /\ InitCli /\ InitDb /\ job \in StoreInputs

\* storage.set(id, &record)
StSet(id) ==
    /\ job' = [job EXCEPT !.op = "set",
                          !.d = StorageSet(job.d, TheStorage, id, StoreRecord(id)),
                          !.ids = job.ids \cup {id}]
    /\ UNCHANGED <<srvVars, cliVars, dbVars>>

\* storage.remove(id)
StRemove(id) ==
    /\ job' = [job EXCEPT !.op = "remove",
                          !.d = StorageRemove(job.d, TheStorage, id),
                          !.ids = job.ids \ {id}]
    /\ UNCHANGED <<srvVars, cliVars, dbVars>>

\* storage.list_ids()
StListIds ==
    /\ job' = [job EXCEPT !.op = "list_ids",
                          !.listed = StorageListIds(job.d, TheStorage)]
    /\ UNCHANGED <<srvVars, cliVars, dbVars>>

NextStore ==
    \/ \E id \in StoreIds : StSet(id)
    \/ \E id \in StoreIds : StRemove(id)
    \/ StListIds

SpecStore == InitStore /\ [][NextStore]_vars

\* C27 (ordered iteration): list_ids returns every stored id exactly once, in
\* ascending numeric order, and each key decodes to the id of the record
\* stored under it.
C27_OrderedIds ==
    job.op = "list_ids" =>
        /\ SeqToSet(job.listed) = job.ids
        /\ \A i, j \in DOMAIN job.listed : i < j => job.listed[i] < job.listed[j]
        /\ \A i \in DOMAIN job.listed :
               LET r == StorageGet(job.d, TheStorage, job.listed[i])
               IN r.ok /\ r.value.cipher_record_id = job.listed[i]

\* C27's case: ids whose little-endian keys would sort the other way round
\* are stored, and list_ids was called.
C27_Witness ==
    /\ job.op = "list_ids"
    /\ {1, 255, 256, 65536} \subseteq job.ids
    /\ Len(job.listed) >= 4

-----------------------------------------------------------------------------
(* Properties of sync_with_server *)

\* The local tree after a pull against the tree before it, for the records
\* the server returned.
PullRule(before, after, db, server_records) ==
    /\ \A i \in DOMAIN server_records :
          LET r == server_records[i] IN
          /\ Has(after, db, r.id)
          /\ IF ~Has(before, db, r.id) \/ r.ver > StoredRecord(before, db, r.id).ver
             THEN /\ StoredRecord(after, db, r.id).cipher_record_id = r.id
                  /\ StoredRecord(after, db, r.id).ver = r.ver
                  /\ StoredRecord(after, db, r.id).data = r.data
             ELSE StoredRecord(after, db, r.id) = StoredRecord(before, db, r.id)
    /\ \A k \in DOMAIN Tree(before, db.storage) :
          (\A i \in DOMAIN server_records : ToBeBytes(server_records[i].id) # k) =>
              /\ k \in DOMAIN Tree(after, db.storage)
              /\ Tree(after, db.storage)[k] = Tree(before, db.storage)[k]
    /\ \A k \in DOMAIN Tree(after, db.storage) :
          \/ k \in DOMAIN Tree(before, db.storage)
          \/ \E i \in DOMAIN server_records : ToBeBytes(server_records[i].id) = k

\* C25 (sync pull rule): a pull that got the server's records inserts each
\* record whose id is absent locally with its id, ver and data, overwrites a
\* local record with a lower ver, leaves a local record with an equal or
\* higher ver unchanged, and touches no local record the server did not
\* return.
C25_PullStep ==
    \A reply \in GetAllReplies \ {<<>>} :
        (SyncPull(reply) /\ cpc'.at # "exit") =>
            PullRule(ldisk, ldisk', user_db[1], reply[1])

\* C25: every step of the client obeys the pull rule.
C25_PullRule == [][C25_PullStep]_vars

\* C25's case: pulls have inserted record 5, overwritten the record made at
\* ClockStart with the server's version 2 and then kept it against the
\* server's version 1, beside a local record the server never returned.
C25_Witness ==
    /\ user_db # <<>>
    /\ wire # <<>> /\ wire[Len(wire)].rpc = "GetAll"
    /\ Has(ldisk, user_db[1], 5)
    /\ StoredRecord(ldisk, user_db[1], 5).data = DataA
    /\ Has(ldisk, user_db[1], ClockStart)
    /\ StoredRecord(ldisk, user_db[1], ClockStart).ver = 2
    /\ StoredRecord(ldisk, user_db[1], ClockStart).data = DataB
    /\ Has(ldisk, user_db[1], ClockStart + 1)
    /\ StoredRecord(ldisk, user_db[1], ClockStart + 1).cipher_options # <<>>

-----------------------------------------------------------------------------
(* Properties of the versions the server stores *)

\* The ver of the record a user's tree holds under an id
StoredVer(d, user_id, id) == DeserializeCipherRecord(UserTree(d, user_id)[ToBeBytes(id)]).ver

\* C30 (server-side version never regresses): over a step that leaves a
\* record of a user in place, the record's stored ver does not decrease.
C30_VerStep ==
    \A user_id \in UserIds, id \in RecIds :
        (/\ ToBeBytes(id) \in DOMAIN UserTree(disk, user_id)
         /\ ToBeBytes(id) \in DOMAIN UserTree(disk', user_id))
            => StoredVer(disk', user_id, id) >= StoredVer(disk, user_id, id)

\* C30: no step of the server lowers the stored ver of a record.
C30_VerNeverRegresses == [][C30_VerStep]_vars

-----------------------------------------------------------------------------
(* server/src/main.rs: two handlers of one user running at the same time *)

\* The token of the session both requests carry
ConcToken == UuidString(TokenBase + 1)

\* The records of the user's tree when the requests arrive
ConcRecords ==
    {[id |-> 1, ver |-> 1, user_id |-> U1, data |-> DataA],
     [id |-> 2, ver |-> 1, user_id |-> U1, data |-> DataB]}

\* The tree of U1 with a set of wire records stored by set_one
RECURSIVE ConcDisk(_)
ConcDisk(records) ==
    IF records = {} THEN StorageOpen(EmptyMap, UserStorage(U1).path, UserStorage(U1).uid)
    ELSE LET r == CHOOSE x \in records : TRUE
         IN StorageSet(ConcDisk(records \ {r}), UserStorage(U1), r.id, ToCipherRecord(U1, r))

\* A request that has not been served yet
Handler(rpc, id, record) ==
    [rpc |-> rpc, id |-> id, record |-> record, pc |-> "new", todo |-> <<>>,
     out |-> <<>>, status |-> ""]

\* The reading requests and the writing requests that meet
Readers == {Handler("GetAll", 0, <<>>), Handler("GetList", 0, <<>>)}
Writers ==
    {Handler("DeleteById", i, <<>>) : i \in {1, 2}}
    \cup {Handler("DeleteAll", 0, <<>>)}
    \cup {Handler("SetOne", 0, <<r>>) :
             r \in {[id |-> 1, ver |-> 2, user_id |-> U1, data |-> DataB],
                    [id |-> 3, ver |-> 1, user_id |-> U1, data |-> DataA]}}

\* sled takes an exclusive file lock on the database it opens where the
\* platform has one (flock); `lock` is the set of handlers that hold the
\* database open.
ConcInputs ==
    {[op |-> "serve", flock |-> f, lock |-> {}, r |-> r, w |-> w] :
        f \in BOOLEAN, r \in Readers, w \in Writers}

InitConc ==
    /\ auth_db = EmptyMap
    /\ sessions = Put(EmptyMap, ConcToken, [user_id |-> U1, expiry |-> SessionTtl])
    /\ disk = ConcDisk(ConcRecords)
    /\ now = 0
    /\ uuids = [challenges |-> 0, tokens |-> 1]
    /\ InitCli /\ InitDb
    /\ job \in ConcInputs

\* The handler's return: its Storage is dropped, the status goes out
Returned(h, status) == [h EXCEPT !.pc = "done", !.status = status]

\* validate_session and get_user_storage of a handler: Storage::open fails
\* when another handler holds the database locked.
CoOpen(who) ==
    /\ job.op = "serve"
    /\ job[who].pc = "new"
    /\ LET a == validate_session(Srv, ConcToken)
       IN IF ~a.ok
          THEN /\ job' = [job EXCEPT ![who] = Returned(@, a.status)]
               /\ UNCHANGED disk
          ELSE IF job.flock /\ job.lock # {}
          THEN /\ job' = [job EXCEPT ![who] = Returned(@, "Internal")]
               /\ UNCHANGED disk
          ELSE /\ job' = [job EXCEPT ![who].pc = "open", !.lock = @ \cup {who}]
               /\ disk' = get_user_storage(a.s, a.user_id).disk
    /\ UNCHANGED <<auth_db, sessions, now, uuids, cliVars, dbVars>>

\* storage.list_ids() of get_all, get_list (in list_ids_with_metadata) and
\* delete_all
CoListIds(who) ==
    /\ job[who].pc = "open"
    /\ job[who].rpc \in {"GetAll", "GetList", "DeleteAll"}
    /\ job' = [job EXCEPT ![who].pc = "loop",
                          ![who].todo = StorageListIds(disk, UserStorage(U1))]
    /\ UNCHANGED <<srvVars, cliVars, dbVars>>

\* One turn of the handler's loop over the listed ids: get_all fails on a
\* record it cannot get, list_ids_with_metadata skips it, delete_all removes.
CoEach(who) ==
    /\ job[who].pc = "loop"
    /\ job[who].todo # <<>>
    /\ LET h  == job[who]
           st == UserStorage(U1)
           id == Head(h.todo)
           g  == StorageGet(disk, st, id)
       IN CASE h.rpc = "GetAll" ->
                 /\ job' = IF ~g.ok
                           THEN [job EXCEPT ![who] = Returned(@, "Internal"),
                                            !.lock = @ \ {who}]
                           ELSE [job EXCEPT ![who].todo = Tail(h.todo),
                                            ![who].out = Append(h.out, ToWireRecord(U1, g.value))]
                 /\ UNCHANGED disk
            [] h.rpc = "GetList" ->
                 /\ job' = [job EXCEPT ![who].todo = Tail(h.todo),
                                       ![who].out =
                                           IF g.ok
                                           THEN Append(h.out, [id |-> g.value.cipher_record_id,
                                                               ver |-> g.value.ver,
                                                               user_id |-> U1])
                                           ELSE h.out]
                 /\ UNCHANGED disk
            [] h.rpc = "DeleteAll" ->
                 /\ job' = [job EXCEPT ![who].todo = Tail(h.todo)]
                 /\ disk' = StorageRemove(disk, st, id)
    /\ UNCHANGED <<auth_db, sessions, now, uuids, cliVars, dbVars>>

\* The loop is over: Ok(Response)
CoReturn(who) ==
    /\ job[who].pc = "loop"
    /\ job[who].todo = <<>>
    /\ job' = [job EXCEPT ![who] = Returned(@, "Ok"), !.lock = @ \ {who}]
    /\ UNCHANGED <<srvVars, cliVars, dbVars>>

\* delete_by_id and set_one after the open: one storage call, then Ok
CoWrite(who) ==
    /\ job[who].pc = "open"
    /\ job[who].rpc \in {"DeleteById", "SetOne"}
    /\ LET h  == job[who]
           st == UserStorage(U1)
       IN disk' = IF h.rpc = "DeleteById" THEN StorageRemove(disk, st, h.id)
                  ELSE StorageSet(disk, st, h.record[1].id, ToCipherRecord(U1, h.record[1]))
    /\ job' = [job EXCEPT ![who] = Returned(@, "Ok"), !.lock = @ \ {who}]
    /\ UNCHANGED <<auth_db, sessions, now, uuids, cliVars, dbVars>>

NextConc ==
    \/ \E who \in {"r", "w"} : CoOpen(who)
    \/ \E who \in {"r", "w"} : CoListIds(who)
    \/ \E who \in {"r", "w"} : CoEach(who)
    \/ \E who \in {"r", "w"} : CoReturn(who)
    \/ \E who \in {"r", "w"} : CoWrite(who)

SpecConc == InitConc /\ [][NextConc]_vars

\* What the reading request returns when it is served alone on a disk
ServedAlone(d, h) ==
    IF h.rpc = "GetAll" THEN get_all([Srv EXCEPT !.disk = d], ConcToken).out
    ELSE get_list([Srv EXCEPT !.disk = d], ConcToken).out

\* The disk after the writing request was served alone
WrittenAlone(h) ==
    CASE h.rpc = "DeleteById" -> delete_by_id([Srv EXCEPT !.disk = ConcDisk(ConcRecords)],
                                              ConcToken, h.id).s.disk
      [] h.rpc = "DeleteAll"  -> delete_all([Srv EXCEPT !.disk = ConcDisk(ConcRecords)],
                                            ConcToken).s.disk
      [] h.rpc = "SetOne"     -> set_one([Srv EXCEPT !.disk = ConcDisk(ConcRecords)],
                                         ConcToken, h.record).s.disk

\* C26 (reader isolation): a GetAll or GetList served while a DeleteById,
\* DeleteAll or SetOne of the same user is served returns Ok, with the
\* records of the tree as it was before the write or as it is after it.
C26_ReaderIsolation ==
    (job.op = "serve" /\ job.r.pc = "done") =>
        /\ job.r.status = "Ok"
        /\ job.r.out \in {ServedAlone(ConcDisk(ConcRecords), job.r),
                          ServedAlone(WrittenAlone(job.w), job.r)}

-----------------------------------------------------------------------------
(* sync_with_server of one client against the server's handlers *)

\* What a store holds of a record id before the sync: nothing, version 1 or
\* version 2
MaxSyncVer == 2
SyncIds == {1, 2}
Holdings == [SyncIds -> 0..MaxSyncVer]

\* The data of a version as written on the client and as held by the server
LocalData(ver) == <<16 + ver, 1>>
ServerData(ver) == <<32 + ver>>

\* The local tree of an open UserDb holding records as create and update
\* leave them
RECURSIVE LocalDisk(_, _, _)
LocalDisk(d, db, held) ==
    IF DOMAIN held = {} THEN d
    ELSE LET id   == CHOOSE x \in DOMAIN held : TRUE
             rest == [x \in DOMAIN held \ {id} |-> held[x]]
             d1   == LocalDisk(d, db, rest)
         IN IF held[id] = 0 THEN d1
            ELSE StorageSet(d1, db.storage, id,
                            [user_id |-> db.user_id, cipher_record_id |-> id,
                             ver |-> held[id], cipher_options |-> get_cipher_options,
                             data |-> LocalData(held[id])])

\* The wire records the server holds for the user
ServerRecords(held) ==
    {[id |-> id, ver |-> held[id], user_id |-> U1, data |-> ServerData(held[id])] :
        id \in {x \in SyncIds : held[x] > 0}}

\* The record another client of the user sets while the sync runs
OtherRecord == [id |-> 1, ver |-> 1, user_id |-> U1, data |-> <<64>>]

\* RestoreDbScreen has opened the database, connected and got a nonce; the
\* server holds a session of the user.  `sent` lists the ids of the SetOne
\* requests of the sync, `others` tells whether anyone else wrote meanwhile.
InitSync ==
    /\ auth_db = EmptyMap
    /\ sessions = Put(EmptyMap, ConcToken, [user_id |-> U1, expiry |-> SessionTtl])
    /\ now = 0
    /\ uuids = [challenges |-> 0, tokens |-> 1]
    /\ clock = ClockStart
    /\ wire = <<>>
    /\ cpc = [at |-> "sync", todo |-> <<>>, ret |-> "WorkScreen"]
    /\ LET o == [db |-> UserDbNew(EmptyMap, DbPath, U1, create_master_keys(1), CipherChainOfCli)]
       IN /\ user_db = <<o.db.db>>
          /\ server = [client |-> TRUE, user_id |-> U1,
                       key_pairs |-> <<generate_dilithium2(create_master_keys(1).dilithium_seed)>>,
                       nonce |-> 7]
          /\ \E local \in Holdings, remote \in Holdings :
                /\ ldisk = LocalDisk(o.db.d, o.db.db, local)
                /\ disk = ConcDisk(ServerRecords(remote))
                /\ job = [op |-> "sync", local_before |-> local, server_before |-> remote,
                          sent |-> <<>>, others |-> FALSE]

\* sync_with_server, steps 1 to 4, with get_all serving the request
SyPull ==
    /\ job.op = "sync"
    /\ cpc.at = "sync"
    /\ LET g == get_all(Srv, ConcToken)
           r == SignAndSend(server, wire, "GetAll", [record |-> <<>>], g.status = "Ok")
           local_records == list_records(ldisk, user_db[1])
       IN /\ server' = r.self
          /\ wire' = r.wire
          /\ sessions' = g.s.sessions
          /\ disk' = g.s.disk
          /\ IF ~r.ok
             THEN cpc' = Screen("exit") /\ UNCHANGED ldisk
             ELSE /\ ldisk' = PullEach(ldisk, user_db[1].storage, r.self.user_id,
                                       local_records, g.out)
                  /\ cpc' = IF local_records = <<>> THEN Screen(cpc.ret)
                            ELSE [at |-> "sync_push", todo |-> local_records, ret |-> cpc.ret]
    /\ UNCHANGED <<auth_db, now, uuids, user_db, clock, job>>

\* sync_with_server, one turn of the loop of step 5, with set_one serving
\* the request
SyPush ==
    /\ job.op = "sync"
    /\ cpc.at = "sync_push"
    /\ LET local_id == Head(cpc.todo)
           g == StorageGet(ldisk, user_db[1].storage, local_id)
       IN IF ~g.ok
          THEN cpc' = Screen("exit") /\ UNCHANGED <<server, wire, sessions, disk, job>>
          ELSE LET record == [id |-> local_id, ver |-> g.value.ver,
                              user_id |-> server.user_id, data |-> g.value.data]
                   s == set_one(Srv, ConcToken, <<record>>)
                   r == SignAndSend(server, wire, "SetOne", [record |-> <<record>>],
                                    s.status = "Ok")
               IN /\ server' = r.self
                  /\ wire' = r.wire
                  /\ sessions' = s.s.sessions
                  /\ disk' = s.s.disk
                  /\ job' = [job EXCEPT !.sent = Append(@, local_id)]
                  /\ cpc' = IF ~r.ok THEN Screen("exit")
                            ELSE IF Tail(cpc.todo) = <<>> THEN Screen(cpc.ret)
                            ELSE [cpc EXCEPT !.todo = Tail(cpc.todo)]
    /\ UNCHANGED <<auth_db, now, uuids, dbVars>>

\* Another client of the user sets a record on the server during the sync.
SyOther ==
    /\ job.op = "sync"
    /\ cpc.at \in {"sync", "sync_push"}
    /\ ~job.others
    /\ LET s == set_one(Srv, ConcToken, <<OtherRecord>>)
       IN sessions' = s.s.sessions /\ disk' = s.s.disk
    /\ job' = [job EXCEPT !.others = TRUE]
    /\ UNCHANGED <<auth_db, now, uuids, cliVars, dbVars>>

NextSync == SyPull \/ SyPush \/ SyOther

SpecSync == InitSync /\ [][NextSync]_vars

\* The ids, versions and data a tree holds
Content(tree) ==
    [k \in DOMAIN tree |->
        LET cr == DeserializeCipherRecord(tree[k])
        IN <<cr.cipher_record_id, cr.ver, cr.data>>]

\* The ids a store held before the sync
HeldIds(held) == {id \in SyncIds : held[id] > 0}

\* C29 (sync convergence): when sync_with_server has returned Ok and nobody
\* else changed either store, the local tree and the user's tree on the
\* server hold the same ids with the same ver and data; every id that was
\* local before the sync went out in exactly one SetOne; and every record
\* either side held is still there.
C29_Converged ==
    (job.op = "sync" /\ cpc.at = "WorkScreen" /\ ~job.others) =>
        /\ Content(Tree(ldisk, user_db[1].storage)) = Content(UserTree(disk, U1))
        /\ SeqToSet(job.sent) = HeldIds(job.local_before)
        /\ Len(job.sent) = Cardinality(HeldIds(job.local_before))
        /\ \A id \in HeldIds(job.local_before) \cup HeldIds(job.server_before) :
               /\ Has(ldisk, user_db[1], id)
               /\ ToBeBytes(id) \in DOMAIN UserTree(disk, U1)

\* C29's case: a sync that nobody disturbed returned Ok after it pulled a
\* record the client did not have, kept a local version newer than the
\* server's, and pushed.
C29_Witness ==
    /\ job.op = "sync" /\ cpc.at = "WorkScreen" /\ ~job.others
    /\ job.local_before = [id \in SyncIds |-> IF id = 1 THEN 2 ELSE 0]
    /\ job.server_before = [id \in SyncIds |-> 1]
    /\ job.sent = <<1>>
    /\ StoredRecord(ldisk, user_db[1], 1).data = LocalData(2)
    /\ StoredRecord(ldisk, user_db[1], 2).data = ServerData(1)

-----------------------------------------------------------------------------
(* Properties of the records in the server's trees *)

\* C35 (server ownership invariant): every CipherRecord in the tree of a
\* user carries that user's id, whatever the request's record said, and the
\* cipher_record_id of the key it is stored under.
C35_Ownership ==
    \A u \in UserIds :
        \A k \in DOMAIN UserTree(disk, u) :
            LET cr == DeserializeCipherRecord(UserTree(disk, u)[k])
            IN cr.user_id = u /\ ToBeBytes(cr.cipher_record_id) = k

\* C35's case: each user's tree holds a record that was sent with the other
\* user's id in its user_id field.
C35_Witness ==
    /\ ToBeBytes(1) \in DOMAIN UserTree(disk, U1)
    /\ DeserializeCipherRecord(UserTree(disk, U1)[ToBeBytes(1)]).data = DataB
    /\ ToBeBytes(2) \in DOMAIN UserTree(disk, U2)
    /\ DeserializeCipherRecord(UserTree(disk, U2)[ToBeBytes(2)]).user_id = U2

-----------------------------------------------------------------------------
(* Properties of the server's sessions *)

\* The tokens Authenticate has returned so far
IssuedTokens == {UuidString(TokenBase + n) : n \in 1..uuids.tokens}

\* What validate_session accepts: a token of the map within its lifetime, as
\* the user of its session.
AcceptsOnlyLive ==
    \A tok \in Tokens :
        LET v == validate_session(Srv, tok)
        IN v.ok => /\ tok \in IssuedTokens
                   /\ tok \in DOMAIN sessions
                   /\ v.user_id = sessions[tok].user_id
                   /\ now <= sessions[tok].expiry

\* A data RPC with a closed or expired token is Unauthenticated and leaves
\* the token out of the session map.
DeadIsRejected ==
    \A tok \in Tokens, c \in DataCalls :
        /\ ~Live(Srv, tok) =>
              /\ Call(Srv, tok, c).status = "Unauthenticated"
              /\ tok \notin DOMAIN Call(Srv, tok, c).s.sessions
        /\ LET closed == close_session(Srv, tok).s
           IN /\ tok \notin DOMAIN closed.sessions
              /\ Call(closed, tok, c).status = "Unauthenticated"

\* CloseSession with a closed or expired token
CloseOfDead(status) ==
    \A tok \in IssuedTokens : ~Live(Srv, tok) => close_session(Srv, tok).status = status

\* A session enters the map only as the token of a successful Authenticate,
\* for that call's user and for 3600 s; it keeps its user and expiry; and a
\* token that is not accepted is not accepted later.
C33_Step ==
    /\ \A tok \in DOMAIN sessions' :
          IF tok \in DOMAIN sessions THEN sessions'[tok] = sessions[tok]
          ELSE /\ tok \notin Tokens
               /\ \E u \in UserIds : \E sig \in Signatures(u) :
                     LET r == authenticate(Srv, u, sig)
                     IN /\ r.status = "Ok" /\ r.out = tok
                        /\ sessions'[tok] = [user_id |-> u, expiry |-> now + SessionTtl]
    /\ \A tok \in Tokens : ~Live(Srv, tok) => ~Live([sessions |-> sessions', now |-> now'], tok)

\* C33 (session lifecycle), as amended: validate_session accepts a token as
\* user U only if a successful Authenticate of U returned it, it was not
\* closed and it is at most 3600 s old; after CloseSession or expiry every
\* data RPC with the token is Unauthenticated and drops it from the map,
\* while CloseSession itself answers Ok; a token once rejected stays rejected.
C33_Lifecycle ==
    /\ [](AcceptsOnlyLive /\ DeadIsRejected /\ CloseOfDead("Ok"))
    /\ [][C33_Step]_vars

\* C33 as stated: every RPC that carries a closed or expired token,
\* CloseSession included, returns Unauthenticated.
C33_EveryRpcRejects ==
    /\ [](AcceptsOnlyLive /\ DeadIsRejected /\ CloseOfDead("Unauthenticated"))
    /\ [][C33_Step]_vars

\* C33's case: of two tokens issued, the first is gone from the map and the
\* second is exactly 3600 s old; or the second has expired unused.
C33_Witness ==
    /\ uuids.tokens = 2
    /\ UuidString(TokenBase + 1) \notin DOMAIN sessions
    /\ UuidString(TokenBase + 2) \in DOMAIN sessions
    /\ now > 0
    /\ sessions[UuidString(TokenBase + 2)].expiry <= now

-----------------------------------------------------------------------------
(* server/src/main.rs: two Register or two Authenticate calls for one user *)
(* running at the same time                                                *)

\* The challenge AuthChallenge stored for U1 before the calls
RaceChallenge == UuidBytes(1)

\* A call that has not run yet: Register carries a public key, Authenticate
\* a signature; `seen` is what the call has read from the auth database.
RaceCall(rpc, pub_key, sig) ==
    [rpc |-> rpc, pub_key |-> pub_key, sig |-> sig, pc |-> "new", seen |-> <<>>,
     status |-> "", out |-> <<>>]

RegisterCalls == {RaceCall("Register", PubKeyBytes(k), <<>>) : k \in Keys}
AuthenticateCalls == {RaceCall("Authenticate", <<>>, Sign(k, RaceChallenge)) : k \in Keys}

\* Two calls of one kind; U1 is registered or not, its challenge stored or not
RaceInputs ==
    {[op |-> "race", registered |-> reg, challenged |-> ch, a |-> a, b |-> b] :
        reg \in BOOLEAN, ch \in BOOLEAN,
        a \in RegisterCalls \cup AuthenticateCalls,
        b \in RegisterCalls \cup AuthenticateCalls}

InitRace ==
    /\ job \in {j \in RaceInputs : j.a.rpc = j.b.rpc}
    /\ auth_db = LET reg == IF job.registered THEN Put(EmptyMap, U1, PubKeyBytes(1))
                            ELSE EmptyMap
                 IN IF job.challenged THEN Put(reg, ChallengeKey(U1), RaceChallenge) ELSE reg
    /\ sessions = EmptyMap
    /\ disk = EmptyMap
    /\ now = 0
    /\ uuids = [challenges |-> 1, tokens |-> 0]
    /\ InitCli /\ InitDb

\* The call returns
RaceDone(h, status, out) == [h EXCEPT !.pc = "done", !.status = status, !.out = out]

\* register: self.auth_db.get(user_id).is_some()
RgCheck(who) ==
    /\ job.op = "race"
    /\ job[who].rpc = "Register" /\ job[who].pc = "new"
    /\ job' = IF U1 \in DOMAIN auth_db
              THEN [job EXCEPT ![who] = RaceDone(@, "AlreadyExists", <<>>)]
              ELSE [job EXCEPT ![who].pc = "insert"]
    /\ UNCHANGED <<srvVars, cliVars, dbVars>>

\* register: self.auth_db.insert(user_id, pub_key), create_dir_all, Ok
RgInsert(who) ==
    /\ job[who].rpc = "Register" /\ job[who].pc = "insert"
    /\ auth_db' = Put(auth_db, U1, job[who].pub_key)
    /\ disk' = CreateDirAll(disk, HexId(U1))
    /\ job' = [job EXCEPT ![who] = RaceDone(@, "Ok", <<>>)]
    /\ UNCHANGED <<sessions, now, uuids, cliVars, dbVars>>

\* authenticate: self.auth_db.get(&challenge_key)
AuGet(who) ==
    /\ job.op = "race"
    /\ job[who].rpc = "Authenticate" /\ job[who].pc = "new"
    /\ job' = IF ChallengeKey(U1) \notin DOMAIN auth_db
              THEN [job EXCEPT ![who] = RaceDone(@, "Unauthenticated", <<>>)]
              ELSE [job EXCEPT ![who].pc = "remove",
                               ![who].seen = <<auth_db[ChallengeKey(U1)]>>]
    /\ UNCHANGED <<srvVars, cliVars, dbVars>>

\* authenticate: self.auth_db.remove(&challenge_key)
AuRemove(who) ==
    /\ job[who].rpc = "Authenticate" /\ job[who].pc = "remove"
    /\ auth_db' = Del(auth_db, ChallengeKey(U1))
    /\ job' = [job EXCEPT ![who].pc = "verify"]
    /\ UNCHANGED <<sessions, disk, now, uuids, cliVars, dbVars>>

\* authenticate from the fetch of the public key to its return
AuVerify(who) ==
    /\ job[who].rpc = "Authenticate" /\ job[who].pc = "verify"
    /\ IF U1 \notin DOMAIN auth_db
       THEN /\ job' = [job EXCEPT ![who] = RaceDone(@, "NotFound", <<>>)]
            /\ UNCHANGED <<sessions, uuids>>
       ELSE IF ~Verify(auth_db[U1], job[who].seen[1], job[who].sig)
       THEN /\ job' = [job EXCEPT ![who] = RaceDone(@, "Unauthenticated", <<>>)]
            /\ UNCHANGED <<sessions, uuids>>
       ELSE LET auth_token == UuidString(TokenBase + uuids.tokens + 1)
            IN /\ uuids' = [uuids EXCEPT !.tokens = @ + 1]
               /\ sessions' = Put(sessions, auth_token,
                                  [user_id |-> U1, expiry |-> now + SessionTtl])
               /\ job' = [job EXCEPT ![who] = RaceDone(@, "Ok", <<auth_token>>)]
    /\ UNCHANGED <<auth_db, disk, now, cliVars, dbVars>>

NextRace ==
    \/ \E who \in {"a", "b"} : RgCheck(who)
    \/ \E who \in {"a", "b"} : RgInsert(who)
    \/ \E who \in {"a", "b"} : AuGet(who)
    \/ \E who \in {"a", "b"} : AuRemove(who)
    \/ \E who \in {"a", "b"} : AuVerify(who)

SpecRace == InitRace /\ [][NextRace]_vars

\* Both calls have returned
BothDone(rpc) ==
    job.op = "race" /\ job.a.rpc = rpc /\ job.a.pc = "done" /\ job.b.pc = "done"

\* C31 (registration is atomic per user): of two Register calls for one
\* unregistered user with different public keys, one returns Ok and the other
\* AlreadyExists, and the stored key is the key of the call that got Ok.
C31_AtomicRegister ==
    (BothDone("Register") /\ ~job.registered /\ job.a.pub_key # job.b.pub_key) =>
        /\ {job.a.status, job.b.status} = {"Ok", "AlreadyExists"}
        /\ auth_db[U1] = (IF job.a.status = "Ok" THEN job.a.pub_key ELSE job.b.pub_key)

\* C32 (challenges are single-use): two Authenticate calls that present the
\* valid signature of the one stored challenge do not both get a session
\* token, and the challenge is gone once an attempt has returned.
C32_SingleUse ==
    BothDone("Authenticate") =>
        /\ ~(job.a.status = "Ok" /\ job.b.status = "Ok")
        /\ ChallengeKey(U1) \notin DOMAIN auth_db

-----------------------------------------------------------------------------
(* storage/src/db.rs and storage/src/user_db.rs: an update whose storage *)
(* write fails                                                           *)

\* The sled write of Storage::up that returns an error, if any
Failures == {"none", "remove", "insert"}

\* Storage::up: remove, then insert, each returning StorageWriteError when
\* sled fails it; the error of the insert leaves the key removed.
StorageUpFailing(d, st, key, payload, failing) ==
    IF failing = "remove" THEN [d |-> d, ok |-> FALSE, err |-> "StorageWriteError"]
    ELSE IF failing = "insert"
    THEN [d |-> StorageRemove(d, st, key), ok |-> FALSE, err |-> "StorageWriteError"]
    ELSE [d |-> StorageUp(d, st, key, payload), ok |-> TRUE, err |-> ""]

\* UserDb::update with the storage error of its last step passed on
update_failing(d, db, record_id, record, seed, failing) ==
    LET current == StorageGet(d, db.storage, record_id) IN
    IF ~current.ok THEN [d |-> d, ok |-> FALSE, err |-> current.err]
    ELSE LET data           == SerializeRecord(record)
             encrypted_data == encrypt(db.ciphers, data, seed)
             cipher_record  == [user_id          |-> db.user_id,
                                cipher_record_id |-> record_id,
                                ver              |-> current.value.ver + 1,
                                cipher_options   |-> get_cipher_options,
                                data             |-> encrypted_data]
         IN StorageUpFailing(d, db.storage, record_id, cipher_record, failing)

\* user_db.update(record_id, record) returns Err(StorageError(..))
DbUpdateFails(record_id, record, seed, failing) ==
    /\ user_db # <<>>
    /\ failing # "none"
    /\ Has(ldisk, user_db[1], record_id)
    /\ ldisk' = update_failing(ldisk, user_db[1], record_id, record, seed, failing).d
    /\ UNCHANGED <<user_db, clock, srvVars, cliVars, fnVars>>

NextDbFault ==
    \/ NextDb
    \/ \E record_id \in DbIds, record \in Records, seed \in Seeds, failing \in Failures :
          DbUpdateFails(record_id, record, seed, failing)

SpecDbFault == Init /\ [][NextDbFault]_vars

\* C34 (update is all-or-nothing): an update that returns an error, for an
\* id the store does not hold or for a storage write that failed, leaves the
\* tree exactly as it was: the record of the id and every other record.
C34_AllOrNothing ==
    user_db # <<>> =>
        \A record_id \in DbIds, record \in Records, seed \in Seeds, failing \in Failures :
            LET u == update_failing(ldisk, user_db[1], record_id, record, seed, failing)
            IN ~u.ok => Tree(u.d, user_db[1].storage) = Tree(ldisk, user_db[1].storage)

-----------------------------------------------------------------------------
(* consensus/sledstore/src/log_store.rs: SledLogStore *)

\* A u64 as four 16-bit limbs, most significant first, so that the indexes
\* near 2^64 are values of the model.
U64(n) == <<0, 0, 0, n>>
U64Max == <<65535, 65535, 65535, 65535>>

U64Less(a, b) == LexLess(a, b)
U64Leq(a, b) == a = b \/ LexLess(a, b)

\* x + 1 for x below 2^64 - 1
U64Succ(x) ==
    IF x[4] < 65535 THEN [x EXCEPT ![4] = @ + 1]
    ELSE IF x[3] < 65535 THEN [x EXCEPT ![3] = @ + 1, ![4] = 0]
    ELSE IF x[2] < 65535 THEN [x EXCEPT ![2] = @ + 1, ![3] = 0, ![4] = 0]
    ELSE [x EXCEPT ![1] = @ + 1, ![2] = 0, ![3] = 0, ![4] = 0]

\* id_to_bin writing the bytes least significant first
id_to_bin_le(id) ==
    [i \in 1..8 |-> IF i % 2 = 1 THEN id[4 - (i \div 2)] % 256
                    ELSE id[5 - (i \div 2)] \div 256]

\* id_to_bin: write_u64::<BigEndian>
id_to_bin(id) ==
    [i \in 1..8 |-> IF i % 2 = 1 THEN id[(i + 1) \div 2] \div 256
                    ELSE id[i \div 2] % 256]

\* bin_to_id: read_u64::<BigEndian> of buf[0..8]
bin_to_id(buf) == [j \in 1..4 |-> buf[2 * j - 1] * 256 + buf[2 * j]]

\* A log id is a term and an index; log ids are ordered by term, then index.
LogId(term, index) == [term |-> term, index |-> index]
LogIdLess(a, b) == a.term < b.term \/ (a.term = b.term /\ U64Less(a.index, b.index))

\* std::cmp::max of two Option<LogId>: None is below every Some
MaxLogId(a, b) ==
    IF a = <<>> THEN b
    ELSE IF b = <<>> THEN a
    ELSE IF LogIdLess(a[1], b[1]) THEN b ELSE a

\* bincode of a log id and of an entry: the u64 fields least significant
\* byte first, the term before the index, the payload last
SerializeLogId(log_id) == ToLeBytes(log_id.term) \o id_to_bin_le(log_id.index)
DeserializeLogId(b) ==
    LogId(b[1] + 256 * b[2], [j \in 1..4 |-> b[8 + 10 - 2 * j] * 256 + b[8 + 9 - 2 * j]])
SerializeEntry(entry) == SerializeLogId(entry.log_id) \o entry.payload
DeserializeEntry(b) == [log_id |-> DeserializeLogId(b), payload |-> Slice(b, 17, Len(b))]

\* The keys of meta
LastPurgedKey == "last_purged_log_id"
VoteKey == "vote"

\* get_meta::<M>
get_meta(store, key) ==
    IF key \in DOMAIN store.meta THEN <<store.meta[key]>> ELSE <<>>

\* put_meta::<M>
put_meta(store, key, value) == [store EXCEPT !.meta = Put(@, key, value)]

\* tree.range(from..), tree.range(from..to) and tree.range(from..=to): the
\* keys in iteration order
KeysFrom(tree, from) == KeysInOrder({k \in DOMAIN tree : ~LexLess(k, from)})
KeysFromBelow(tree, from, to) ==
    KeysInOrder({k \in DOMAIN tree : ~LexLess(k, from) /\ LexLess(k, to)})
KeysFromTo(tree, from, to) ==
    KeysInOrder({k \in DOMAIN tree : ~LexLess(k, from) /\ ~LexLess(to, k)})

\* A range of u64: each bound is <<"Included", x>>, <<"Excluded", x>> or
\* <<"Unbounded">>
contains(range, id) ==
    /\ CASE range.start[1] = "Included" -> U64Leq(range.start[2], id)
         [] range.start[1] = "Excluded" -> U64Less(range.start[2], id)
         [] OTHER -> TRUE
    /\ CASE range.end[1] = "Included" -> U64Leq(id, range.end[2])
         [] range.end[1] = "Excluded" -> U64Less(id, range.end[2])
         [] OTHER -> TRUE

\* Iterator::take_while(|(id, _)| range.contains(id))
RECURSIVE TakeWhileIn(_, _)
TakeWhileIn(pairs, range) ==
    IF pairs = <<>> \/ ~contains(range, Head(pairs).id) THEN <<>>
    ELSE <<Head(pairs)>> \o TakeWhileIn(Tail(pairs), range)

\* try_get_log_entries: the entries, or the panic of assert_eq!
try_get_log_entries(store, range) ==
    LET start == CASE range.start[1] = "Included" -> id_to_bin(range.start[2])
                   [] range.start[1] = "Excluded" -> id_to_bin(U64Succ(range.start[2]))
                   [] OTHER -> id_to_bin(U64(0))
        keys  == KeysFrom(store.logs, start)
        pairs == [i \in DOMAIN keys |->
                     [id |-> bin_to_id(keys[i]), entry |-> DeserializeEntry(store.logs[keys[i]])]]
        taken == TakeWhileIn(pairs, range)
    IN IF \E i \in DOMAIN pairs : pairs[i].id # pairs[i].entry.log_id.index
       THEN [ok |-> FALSE, err |-> "panic", value |-> <<>>]
       ELSE [ok |-> TRUE, err |-> "", value |-> [i \in DOMAIN taken |-> taken[i].entry]]

\* get_log_state returning the last entry's log id without the max
get_log_state_last(store) ==
    LET last_purged == IF get_meta(store, LastPurgedKey) = <<>> THEN <<>>
                       ELSE <<DeserializeLogId(get_meta(store, LastPurgedKey)[1])>>
        keys == KeysInOrder(DOMAIN store.logs)
    IN IF keys = <<>>
       THEN [last_purged_log_id |-> last_purged, last_log_id |-> last_purged]
       ELSE [last_purged_log_id |-> last_purged,
             last_log_id |-> <<DeserializeEntry(store.logs[keys[Len(keys)]]).log_id>>]

\* get_log_state
get_log_state(store) ==
    LET last_purged == IF get_meta(store, LastPurgedKey) = <<>> THEN <<>>
                       ELSE <<DeserializeLogId(get_meta(store, LastPurgedKey)[1])>>
        keys == KeysInOrder(DOMAIN store.logs)
    IN IF keys = <<>>
       THEN [last_purged_log_id |-> last_purged, last_log_id |-> last_purged]
       ELSE LET last_ent == DeserializeEntry(store.logs[keys[Len(keys)]])
            IN [last_purged_log_id |-> last_purged,
                last_log_id |-> MaxLogId(<<last_ent.log_id>>, last_purged)]

\* sled::Batch of inserts applied to a tree: all of it, the later insert of
\* a key winning
RECURSIVE InsertAll(_, _)
InsertAll(tree, entries) ==
    IF entries = <<>> THEN tree
    ELSE InsertAll(Put(tree, id_to_bin(Head(entries).log_id.index), SerializeEntry(Head(entries))),
                   Tail(entries))

\* sled::Batch of removes applied to a tree
RemoveAll(tree, keys) == [k \in DOMAIN tree \ SeqToSet(keys) |-> tree[k]]

\* append up to apply_batch; applied tells whether sled applied the batch
append(store, entries, applied) ==
    IF applied THEN [store EXCEPT !.logs = InsertAll(@, entries)] ELSE store

\* truncate removing through the last key
truncate_through(store, log_id) ==
    [store EXCEPT !.logs =
        RemoveAll(@, KeysFromTo(@, id_to_bin(log_id.index), id_to_bin(U64Max)))]

\* truncate
truncate(store, log_id) ==
    [store EXCEPT !.logs =
        RemoveAll(@, KeysFromBelow(@, id_to_bin(log_id.index), id_to_bin(U64Max)))]

\* The two writes of purge, in the order the mutant of C38 runs them
purge_step_delete_first(store, log_id, step) ==
    IF step = 2 THEN put_meta(store, LastPurgedKey, SerializeLogId(log_id))
    ELSE [store EXCEPT !.logs =
             RemoveAll(@, KeysFromTo(@, id_to_bin(U64(0)), id_to_bin(log_id.index)))]

\* purge: step 1 is put_meta::<LastPurged>, step 2 the batch of removes
purge_step(store, log_id, step) ==
    IF step = 1 THEN put_meta(store, LastPurgedKey, SerializeLogId(log_id))
    ELSE [store EXCEPT !.logs =
             RemoveAll(@, KeysFromTo(@, id_to_bin(U64(0)), id_to_bin(log_id.index)))]

-----------------------------------------------------------------------------
(* One SledLogStore driven by its caller, one call at a time *)

MaxTerm == 2
MaxIndex == 2

RaftTerms == 1..MaxTerm
RaftIndexes == {U64(i) : i \in 1..MaxIndex} \cup {U64Max}
RaftLogIds == {LogId(t, i) : t \in RaftTerms, i \in RaftIndexes}
RaftEntry(log_id) == [log_id |-> log_id, payload |-> <<1>>]
RaftEntries == {RaftEntry(l) : l \in RaftLogIds}

\* The batches the caller appends: indexes ascending
RaftBatches ==
    {<<e>> : e \in RaftEntries}
    \cup {p \in RaftEntries \X RaftEntries : U64Less(p[1].log_id.index, p[2].log_id.index)}

\* The ranges the caller reads
RaftRanges ==
    LET ids == RaftIndexes \cup {U64(0)}
    IN {[start |-> s, end |-> e] :
           s \in {<<"Unbounded">>} \cup {<<"Included", i>> : i \in ids}
                 \cup {<<"Excluded", i>> : i \in ids \ {U64Max}},
           e \in {<<"Unbounded">>} \cup {<<"Included", i>> : i \in ids}
                 \cup {<<"Excluded", i>> : i \in ids}}

\* SledLogStore::new on a fresh database. purged and deleted record the
\* most recent call of purge and the indexes it has removed; batch and cb the
\* most recent append and its IOFlushed callback.
InitRaft ==
    /\ InitSrv /\ InitCli /\ InitDb
    /\ job = [op |-> "raft",
              store |-> [logs |-> EmptyMap, meta |-> EmptyMap],
              pc |-> "idle", arg |-> <<>>,
              batch |-> <<>>, cb |-> "none",
              purged |-> <<>>, deleted |-> {}]

RaftStep(j) ==
    /\ job' = j
    /\ UNCHANGED <<srvVars, cliVars, dbVars>>

\* append up to apply_batch
RfAppend(entries, applied) ==
    /\ job.pc = "idle"
    /\ RaftStep([job EXCEPT !.store = append(@, entries, applied),
                            !.pc = IF applied THEN "flushing" ELSE "idle",
                            !.batch = entries,
                            !.cb = IF applied THEN "pending" ELSE "dropped"])

\* append from flush_async to callback.io_completed
RfFlush(flushed) ==
    /\ job.pc = "flushing"
    /\ RaftStep([job EXCEPT !.pc = "idle",
                            !.cb = IF flushed THEN "completed" ELSE "dropped"])

\* truncate
RfTruncate(log_id) ==
    /\ job.pc = "idle"
    /\ RaftStep([job EXCEPT !.store = truncate(@, log_id), !.cb = "none", !.batch = <<>>])

\* The indexes under the keys a step removed
Removed(before, after) == {bin_to_id(k) : k \in DOMAIN before.logs \ DOMAIN after.logs}

\* purge, its first write
RfPurgeFirst(log_id) ==
    /\ job.pc = "idle"
    /\ LET after == purge_step(job.store, log_id, 1)
       IN RaftStep([job EXCEPT !.store = after, !.pc = "purging", !.arg = <<log_id>>,
                               !.purged = <<log_id>>,
                               !.deleted = Removed(job.store, after),
                               !.cb = "none", !.batch = <<>>])

\* purge, its second write
RfPurgeSecond ==
    /\ job.pc = "purging"
    /\ LET after == purge_step(job.store, job.arg[1], 2)
       IN RaftStep([job EXCEPT !.store = after, !.pc = "idle", !.arg = <<>>,
                               !.deleted = @ \cup Removed(job.store, after)])

\* purge returning the error of apply_batch, or the process stopping, after
\* the first write
RfPurgeFails ==
    /\ job.pc = "purging"
    /\ RaftStep([job EXCEPT !.pc = "idle", !.arg = <<>>])

\* save_vote
RfSaveVote(term) ==
    /\ job.pc = "idle"
    /\ RaftStep([job EXCEPT !.store = put_meta(@, VoteKey, ToLeBytes(term)),
                            !.cb = "none", !.batch = <<>>])

NextRaft ==
    \/ \E entries \in RaftBatches, applied \in BOOLEAN : RfAppend(entries, applied)
    \/ \E flushed \in BOOLEAN : RfFlush(flushed)
    \/ \E log_id \in RaftLogIds : RfTruncate(log_id)
    \/ \E log_id \in RaftLogIds : RfPurgeFirst(log_id)
    \/ RfPurgeSecond
    \/ RfPurgeFails
    \/ \E term \in RaftTerms : RfSaveVote(term)

SpecRaft == InitRaft /\ [][NextRaft]_vars

\* The entries stored, by their keys
StoredEntries(store) == {DeserializeEntry(store.logs[k]) : k \in DOMAIN store.logs}

\* The entries of a set in ascending order of index
RECURSIVE ByIndex(_)
ByIndex(es) ==
    IF es = {} THEN <<>>
    ELSE LET least == CHOOSE e \in es :
                          \A o \in es : U64Leq(e.log_id.index, o.log_id.index)
         IN <<least>> \o ByIndex(es \ {least})

-----------------------------------------------------------------------------
(* Properties of SledLogStore *)

\* What truncate(log_id) returning Ok leaves of a store
TruncateRemovesFrom(store, log_id) ==
    LET after == truncate(store, log_id)
    IN /\ \A k \in DOMAIN after.logs : U64Less(bin_to_id(k), log_id.index)
       /\ \A k \in DOMAIN store.logs :
              U64Less(bin_to_id(k), log_id.index) =>
                  k \in DOMAIN after.logs /\ after.logs[k] = store.logs[k]
       /\ after.meta = store.meta

\* C37: after truncate(log_id) returns Ok no entry with an index at or above
\* log_id.index remains in the log, for every index up to 2^64 - 1, while
\* the entries with a smaller index, the vote and the last purged log id are
\* as they were.
C37_Truncate ==
    job.pc = "idle" => \A log_id \in RaftLogIds : TruncateRemovesFrom(job.store, log_id)

\* Option<LogId> a below Option<LogId> b
OptLogIdLess(a, b) == b # <<>> /\ (a = <<>> \/ LogIdLess(a[1], b[1]))

\* The log id of the stored entry with the highest index, if any
HighestStored(store) ==
    LET es == StoredEntries(store)
    IN IF es = {} THEN <<>>
       ELSE <<(CHOOSE e \in es : \A o \in es : U64Leq(o.log_id.index, e.log_id.index)).log_id>>

\* C39: get_log_state reports as last_purged_log_id the log id of the most
\* recent purge, None when there was none, and as last_log_id the greater of
\* the highest stored entry's log id and last_purged_log_id; so last_log_id
\* is never below last_purged_log_id and equals it when the log is empty.
C39_LogState ==
    LET state == get_log_state(job.store)
        highest == HighestStored(job.store)
    IN /\ state.last_purged_log_id = job.purged
       /\ state.last_log_id \in {highest, job.purged}
       /\ ~OptLogIdLess(state.last_log_id, highest)
       /\ ~OptLogIdLess(state.last_log_id, state.last_purged_log_id)
       /\ job.store.logs = EmptyMap => state.last_log_id = state.last_purged_log_id

\* A purge has happened and the highest stored entry's log id is below it.
C39_Witness ==
    /\ job.pc = "idle"
    /\ job.purged # <<>>
    /\ job.store.logs # EmptyMap
    /\ OptLogIdLess(HighestStored(job.store), job.purged)
    /\ get_log_state(job.store).last_log_id = job.purged

\* The persisted last purged log id
PersistedLastPurged(store) ==
    IF get_meta(store, LastPurgedKey) = <<>> THEN <<>>
    ELSE <<DeserializeLogId(get_meta(store, LastPurgedKey)[1])>>

\* Every entry the purge has removed is at or below the persisted last
\* purged log id.
DeletedIsCovered ==
    \A i \in job.deleted :
        /\ PersistedLastPurged(job.store) # <<>>
        /\ U64Leq(i, PersistedLastPurged(job.store)[1].index)

\* The first write of purge persists the log id and removes nothing; the
\* second removes the entries at or below its index and no other.
C38_Step ==
    /\ (job.pc = "idle" /\ job'.pc = "purging") =>
           /\ PersistedLastPurged(job'.store) = job'.arg
           /\ job'.store.logs = job.store.logs
    /\ (job.pc = "purging" /\ job'.pc = "idle" /\ job'.store # job.store) =>
           /\ \A k \in DOMAIN job'.store.logs : U64Less(job.arg[1].index, bin_to_id(k))
           /\ \A k \in DOMAIN job.store.logs :
                  U64Less(job.arg[1].index, bin_to_id(k)) =>
                      k \in DOMAIN job'.store.logs /\ job'.store.logs[k] = job.store.logs[k]
           /\ job'.store.meta = job.store.meta

ReadsBack ==
    /\ \A k \in DOMAIN job.store.logs :
           DeserializeEntry(job.store.logs[k]).log_id.index = bin_to_id(k)
    /\ \A range \in RaftRanges :
           LET got == try_get_log_entries(job.store, range)
           IN /\ got.ok
              /\ got.value =
                     ByIndex({e \in StoredEntries(job.store) : contains(range, e.log_id.index)})

\* The callback of an append has completed only with its batch stored.
CompletedIsStored ==
    job.cb = "completed" =>
        \A i \in DOMAIN job.batch : job.batch[i] \in StoredEntries(job.store)

\* An append stores its whole batch, replacing what was stored at the same
\* indexes, or nothing; its callback completes only after the flush.
C36_Step ==
    /\ (job.pc = "idle" /\ job'.pc = "flushing") =>
           /\ \A i \in DOMAIN job'.batch :
                  LET key == id_to_bin(job'.batch[i].log_id.index)
                  IN /\ key \in DOMAIN job'.store.logs
                     /\ DeserializeEntry(job'.store.logs[key]) = job'.batch[i]
           /\ \A k \in DOMAIN job.store.logs :
                  (\A i \in DOMAIN job'.batch : k # id_to_bin(job'.batch[i].log_id.index)) =>
                      k \in DOMAIN job'.store.logs /\ job'.store.logs[k] = job.store.logs[k]
           /\ Cardinality(DOMAIN job'.store.logs) <=
                  Cardinality(DOMAIN job.store.logs) + Len(job'.batch)
    /\ (job.pc = "idle" /\ job'.pc = "idle" /\ job'.cb = "dropped") =>
           job'.store = job.store
    /\ (job'.cb = "completed" /\ job.cb # "completed") =>
           job.pc = "flushing" /\ job.cb = "pending" /\ job'.store = job.store

=========================================================================
